---------------------------- MODULE Spec2Model ----------------------------
(***************************************************************************)
(* Reminder scheduling and dose logging of the medication tracker          *)
(* (src/App.tsx): the application state held by the App component, the     *)
(* user-triggered handlers (log, snooze, refill, delete, permission) and   *)
(* the poller callback checkReminders.                                     *)
(*                                                                         *)
(* Time.  `now' is Date.now(), counted in steps; a minute has              *)
(* StepsPerMinute steps and a day has MinutesPerDay minutes, so that more  *)
(* than one minute and more than one calendar day fit inside the horizon   *)
(* MaxNow.  An "HH:mm" string is modelled by its minute of the day, a      *)
(* "yyyy-MM-dd" string by the number of the day.  The clock only moves     *)
(* forward.  The medication form and the dashboard compute with the hours  *)
(* and minutes of an "HH:mm" string; in their sections the string is the   *)
(* pair <<hours, minutes>> and a day has its 1440 minutes.                 *)
(*                                                                         *)
(* React.  Every handler is one atomic step that reads the state of the    *)
(* latest render.  The reminder effect depends on medications, logs,       *)
(* notificationPermission, snoozedItems and profiles: a handler that sets  *)
(* one of them makes the effect run again, and the effect calls            *)
(* checkReminders at once when permission is granted.  That call is part   *)
(* of the handler's step (ReminderEffect).                                 *)
(*                                                                         *)
(* State updaters.  An updater passed to a setter runs when React          *)
(* processes the update, and index.tsx renders App inside React.StrictMode, *)
(* under which a development build runs an updater twice: the updater of   *)
(* checkReminders, which triggers notifications, runs once or twice        *)
(* (UpdaterRuns).  The updater of the status change in handleLogMedication *)
(* reads existingLog.status, a field of the very object the handler        *)
(* overwrites two statements later: it sees the old status if React        *)
(* evaluates it at the call and the new one if React evaluates it with     *)
(* the next render (UpdaterTimings).                                       *)
(***************************************************************************)
EXTENDS Integers, Sequences, FiniteSets

VARIABLES
    now,                    \* Date.now(), in steps
    medications,            \* useState<Medication[]>
    logs,                   \* useState<LogEntry[]>
    snoozedItems,           \* useState<SnoozeEntry[]>
    profiles,               \* useState<Profile[]>
    activeProfileId,        \* useState<string>
    notificationPermission, \* useState<NotificationPermission>
    lastCheckedMinuteRef,   \* useRef<string>('')
    fired,                  \* the triggerNotification calls of the latest step, in order
    op,                     \* the latest step: which operation ran, and on what
    scanCount,              \* history: runs of the scheduled scan in the current minute
    reminded,               \* history: scheduled reminders per medication in the current minute
    snoozeUntil             \* history: (medication, slot, T + d) of each snoozeDose call, until T + d

vars == <<now, medications, logs, snoozedItems, profiles, activeProfileId,
          notificationPermission, lastCheckedMinuteRef, fired, op,
          scanCount, reminded, snoozeUntil>>

-----------------------------------------------------------------------------
(* Bounds of the model *)

MaxNow == 4
MaxLogs == 2
MaxStock == 2
MaxPollLogs == 1
MaxDebt == 1
MaxWalk == 60
MaxItemLen == 4

(* Scale of the clock and the domains inputs are drawn from *)

Steps == {0, 1}                 \* the steps inside one minute
Slots == {0, 1}                 \* the "HH:mm" values of one day
StepsPerMinute == Cardinality(Steps)
MinutesPerDay == Cardinality(Slots)
SnoozeMinutes == {1}            \* the `minutes' argument of a snooze
MedIds == {"m1", "m2"}
Statuses == {"TAKEN", "SKIPPED"}
Permissions == {"granted", "denied"}
Frequencies == {"DAILY", "WEEKLY", "AS_NEEDED", "INTERVAL"}
WeekDays == {0, 1}              \* the getDay() values of the days the clock reaches
StartDates == {0, 1}            \* the `startDate' of a medication, a day
ProfileIds == {"default", "p2"}
StartHours == {0, 8, 22, 23}    \* the hours of the "Starting at" field
StartMinutes == {0, 30, 59}     \* its minutes
IntervalUnits == {"hours", "minutes"}
IntervalVals == {1, 4, 30, 59, 240}   \* the "Take every" field
ClockReadings == {8 * 60, 9 * 60 + 5, 9 * 60 + 30, 10 * 60, 10 * 60 + 1}
                                \* getHours() * 60 + getMinutes() at a render
DoseTimes == {<<>>, <<<<9, 0>>>>, <<<<9, 30>>>>, <<<<9, 30>>, <<9, 0>>>>,
              <<<<9, 0>>, <<11, 0>>>>}      \* `times' lists of "HH:mm"
Sounds == {"none", "default", "chime"}    \* reminderSound; "none": absent
Owners == {"none", "default", "p2", "gone"}   \* profileId; "gone": no such profile
PreferredSounds == {"none", "default", "alert"}   \* preferredSound; "none": absent
StorageKeys == {"medimind_profiles", "medimind_meds", "medimind_logs",
                "medimind_vitals", "medimind_appointments", "medimind_moods"}
JsonChars == {"[", "]", "x", ","}   \* the characters of a stored item
IntervalFieldVals == {0 - 2, 0, 1, 4, 240}   \* Number(e.target.value) of the field
UpdaterRuns == {1, 2}           \* production build, development build under StrictMode
UpdaterTimings == {"atCall", "atRender"}

-----------------------------------------------------------------------------
(* Dates *)

TimeStr(t) == (t \div StepsPerMinute) % MinutesPerDay
DateStr(t) == (t \div StepsPerMinute) \div MinutesPerDay
DayOfWeek(t) == DateStr(t) % 7
MinuteKey(t) == <<DateStr(t), TimeStr(t)>>

\* (mutant) the key of an on-demand dose is the instant itself
WallClockInstant(t) == t

\* new Date().toLocaleTimeString([], {hour: '2-digit', minute: '2-digit'}):
\* the hour and minute of the instant, seconds dropped
WallClockMinute(t) == (t \div StepsPerMinute) % MinutesPerDay

(* Arrays *)

Min(S) == CHOOSE x \in S : \A y \in S : x <= y

\* the notifications in `ns' that are about medication `medId'
CountFor(ns, medId) == Cardinality({i \in 1..Len(ns) : ns[i].medicationId = medId})

\* Array.prototype.find on medications: the index of the first match, 0 for none
FindMed(meds, medId) ==
    LET idx == {i \in 1..Len(meds) : meds[i].id = medId}
    IN  IF idx = {} THEN 0 ELSE Min(idx)

FindProfile(ps, pid) ==
    LET idx == {i \in 1..Len(ps) : ps[i].id = pid}
    IN  IF idx = {} THEN 0 ELSE Min(idx)

-----------------------------------------------------------------------------
(* Sound of a reminder *)

\* med.profileId || 'default'; "none" stands for an absent field
OwnerId(med) == IF med.profileId = "none" THEN "default" ELSE med.profileId

\* the sound of a scheduled reminder
EffectiveSound(med, ps) ==
    LET p == FindProfile(ps, OwnerId(med))
    IN  IF med.reminderSound # "none" /\ med.reminderSound # "default"
        THEN med.reminderSound
        ELSE IF p # 0 /\ ps[p].preferredSound # "none"
             THEN ps[p].preferredSound
             ELSE "default"

\* (mutant) the snooze step prefers the profile's sound to the medication's
SnoozeSoundProfileFirst(med, ps) ==
    LET p == FindProfile(ps, OwnerId(med))
    IN  IF p # 0 /\ ps[p].preferredSound # "none"
        THEN ps[p].preferredSound
        ELSE IF med.reminderSound # "none" /\ med.reminderSound # "default"
             THEN med.reminderSound
             ELSE "default"

\* the sound of a snooze reminder: the same expression, in the snooze step
SnoozeSound(med, ps) ==
    LET p == FindProfile(ps, OwnerId(med))
    IN  IF med.reminderSound # "none" /\ med.reminderSound # "default"
        THEN med.reminderSound
        ELSE IF p # 0 /\ ps[p].preferredSound # "none"
             THEN ps[p].preferredSound
             ELSE "default"

Notification(kind, medId, time, sound) ==
    [kind |-> kind, medicationId |-> medId, time |-> time, sound |-> sound]

-----------------------------------------------------------------------------
(* checkReminders: the poller's callback *)

\* step 1: the reminders of the snoozes whose wake-up time has passed
SnoozeReminders(prevSnoozes, meds, ps, t) ==
    LET elapsed == SelectSeq(prevSnoozes,
                       LAMBDA s : t >= s.wakeUpTime /\ FindMed(meds, s.medicationId) # 0)
    IN  [i \in 1..Len(elapsed) |->
            LET med == meds[FindMed(meds, elapsed[i].medicationId)]
            IN  Notification("snooze", med.id, elapsed[i].scheduledTime,
                             SnoozeSound(med, ps))]

\* (mutant) the snooze step keeps every entry
RemainingSnoozesKeepAll(prevSnoozes, t) ==
    prevSnoozes

\* step 1: what setSnoozedItems keeps
RemainingSnoozes(prevSnoozes, t) ==
    SelectSeq(prevSnoozes, LAMBDA s : ~(t >= s.wakeUpTime))

\* (mutant) the guard compares the stored key with the HH:mm part alone
MinuteAlreadyCheckedTimeOnly(lastChecked, currentMinuteKey) ==
    lastChecked = <<currentMinuteKey[2]>>

\* (mutant) the key of the last scan is never recognised
MinuteNeverChecked(lastChecked, currentMinuteKey) ==
    FALSE

\* the guard of the scheduled scan
MinuteAlreadyChecked(lastChecked, currentMinuteKey) ==
    lastChecked = currentMinuteKey

\* (mutant) an entry of any date counts
IsLoggedAnyDate(ls, medId, dateStr, timeStr) ==
    \E i \in 1..Len(ls) : /\ ls[i].medicationId = medId
                          /\ ls[i].scheduledTime = timeStr

IsLogged(ls, medId, dateStr, timeStr) ==
    \E i \in 1..Len(ls) : /\ ls[i].medicationId = medId
                          /\ ls[i].dateStr = dateStr
                          /\ ls[i].scheduledTime = timeStr

\* (mutant) the slot is compared with the wake-up time
IsSnoozedWrongField(snoozes, medId, timeStr) ==
    \E i \in 1..Len(snoozes) : /\ snoozes[i].medicationId = medId
                               /\ snoozes[i].wakeUpTime = timeStr

IsSnoozed(snoozes, medId, timeStr) ==
    \E i \in 1..Len(snoozes) : /\ snoozes[i].medicationId = medId
                               /\ snoozes[i].scheduledTime = timeStr

\* (mutant) the daysOfWeek test is applied whatever the frequency
IsDueAtDaysForAll(med, timeStr, dayOfWeek) ==
    /\ med.frequency # "AS_NEEDED"
    /\ ~(med.daysOfWeek # {} /\ dayOfWeek \notin med.daysOfWeek)
    /\ timeStr \in med.times

\* (mutant) an empty daysOfWeek excludes every day
IsDueAtEmptyDaysNever(med, timeStr, dayOfWeek) ==
    /\ med.frequency # "AS_NEEDED"
    /\ ~(med.frequency = "WEEKLY" /\ dayOfWeek \notin med.daysOfWeek)
    /\ timeStr \in med.times

\* (mutant) without the early return on AS_NEEDED
IsDueAtNoAsNeededSkip(med, timeStr, dayOfWeek) ==
    /\ ~(/\ med.frequency = "WEEKLY"
         /\ med.daysOfWeek # {}
         /\ dayOfWeek \notin med.daysOfWeek)
    /\ timeStr \in med.times

\* the early returns of the scan and the test on `times'
IsDueAt(med, timeStr, dayOfWeek) ==
    /\ med.frequency # "AS_NEEDED"
    /\ ~(/\ med.frequency = "WEEKLY"
         /\ med.daysOfWeek # {}
         /\ dayOfWeek \notin med.daysOfWeek)
    /\ timeStr \in med.times

\* (mutant) the scan looks at the medications of the active profile only
ScheduledRemindersOfActive(meds, ls, snoozes, ps, t) ==
    LET toRemind == SelectSeq(meds,
                        LAMBDA med : /\ OwnerId(med) = activeProfileId
                                     /\ IsDueAt(med, TimeStr(t), DayOfWeek(t))
                                     /\ ~IsLogged(ls, med.id, DateStr(t), TimeStr(t))
                                     /\ ~IsSnoozed(snoozes, med.id, TimeStr(t)))
    IN  [i \in 1..Len(toRemind) |->
            Notification("scheduled", toRemind[i].id, TimeStr(t),
                         EffectiveSound(toRemind[i], ps))]

\* step 2: the reminders of the scheduled scan, in the order of `medications'
ScheduledReminders(meds, ls, snoozes, ps, t) ==
    LET toRemind == SelectSeq(meds,
                        LAMBDA med : /\ IsDueAt(med, TimeStr(t), DayOfWeek(t))
                                     /\ ~IsLogged(ls, med.id, DateStr(t), TimeStr(t))
                                     /\ ~IsSnoozed(snoozes, med.id, TimeStr(t)))
    IN  [i \in 1..Len(toRemind) |->
            Notification("scheduled", toRemind[i].id, TimeStr(t),
                         EffectiveSound(toRemind[i], ps))]

\* (mutant) the minute guard comes first and gates the snooze step as well
RunCheckRemindersGuardFirst(meds, ls, snoozes, emitted) ==
    LET scan == ~MinuteAlreadyChecked(lastCheckedMinuteRef, MinuteKey(now))
        scheduled == IF scan
                     THEN ScheduledReminders(meds, ls, snoozes, profiles, now)
                     ELSE <<>>
        woken == IF scan THEN SnoozeReminders(snoozes, meds, profiles, now) ELSE <<>>
    IN  /\ snoozedItems' = IF scan THEN RemainingSnoozes(snoozes, now) ELSE snoozes
        /\ fired' = emitted \o woken \o scheduled
        /\ lastCheckedMinuteRef' = IF scan THEN MinuteKey(now) ELSE lastCheckedMinuteRef
        /\ scanCount' = IF scan THEN scanCount + 1 ELSE scanCount
        /\ reminded' = [m \in MedIds |-> reminded[m] + CountFor(scheduled, m)]

\* One run of checkReminders on the state (meds, ls, snoozes) of the render it
\* closes over; `emitted' are the notifications already triggered in this step.
RunCheckReminders(meds, ls, snoozes, emitted) ==
    LET scan == ~MinuteAlreadyChecked(lastCheckedMinuteRef, MinuteKey(now))
        scheduled == IF scan
                     THEN ScheduledReminders(meds, ls, snoozes, profiles, now)
                     ELSE <<>>
        woken == SnoozeReminders(snoozes, meds, profiles, now)
    IN  /\ snoozedItems' = RemainingSnoozes(snoozes, now)
        /\ \E runs \in (IF woken = <<>> THEN {1} ELSE UpdaterRuns) :
               fired' = emitted \o (IF runs = 1 THEN woken ELSE woken \o woken) \o scheduled
        /\ lastCheckedMinuteRef' = IF scan THEN MinuteKey(now) ELSE lastCheckedMinuteRef
        /\ scanCount' = IF scan THEN scanCount + 1 ELSE scanCount
        /\ reminded' = [m \in MedIds |->
                           reminded[m] + CountFor(scheduled, m)]

\* (mutant) the effect calls checkReminders whatever the permission
ReminderEffectUnguarded(meds, ls, snoozes, permission, emitted) ==
    /\ medications' = meds
    /\ logs' = ls
    /\ notificationPermission' = permission
    /\ RunCheckReminders(meds, ls, snoozes, emitted)

\* The reminder effect after a render with the new state: it returns at once
\* unless permission is granted, and calls checkReminders otherwise.
ReminderEffect(meds, ls, snoozes, permission, emitted) ==
    /\ medications' = meds
    /\ logs' = ls
    /\ notificationPermission' = permission
    /\ IF permission # "granted"
       THEN /\ snoozedItems' = snoozes
            /\ fired' = emitted
            /\ UNCHANGED <<lastCheckedMinuteRef, scanCount, reminded>>
       ELSE RunCheckReminders(meds, ls, snoozes, emitted)

\* setInterval(checkReminders, 5000): a tick of the poller
checkReminders ==
    /\ notificationPermission = "granted"
    /\ RunCheckReminders(medications, logs, snoozedItems, <<>>)
    /\ op' = [name |-> "tick",
              scanned |-> ~MinuteAlreadyChecked(lastCheckedMinuteRef, MinuteKey(now))]
    /\ UNCHANGED <<now, medications, logs, profiles, activeProfileId,
                   notificationPermission, snoozeUntil>>

\* a tick, recording how many registry entries it found elapsed
checkRemindersWoken ==
    /\ notificationPermission = "granted"
    /\ RunCheckReminders(medications, logs, snoozedItems, <<>>)
    /\ op' = [name |-> "tick",
              scanned |-> ~MinuteAlreadyChecked(lastCheckedMinuteRef, MinuteKey(now)),
              woken |-> Len(snoozedItems) - Len(RemainingSnoozes(snoozedItems, now))]
    /\ UNCHANGED <<now, medications, logs, profiles, activeProfileId,
                   notificationPermission, snoozeUntil>>

\* a tick during which the notifier fails: triggerNotification is async and
\* is called without await or catch, so a throw inside it or a rejection of
\* showNotification is a rejected promise that checkReminders never sees;
\* the run continues and ends as it does when the notifier succeeds
checkRemindersNotifierFails ==
    /\ notificationPermission = "granted"
    /\ RunCheckReminders(medications, logs, snoozedItems, <<>>)
    /\ fired' # <<>>
    /\ op' = [name |-> "tick",
              scanned |-> ~MinuteAlreadyChecked(lastCheckedMinuteRef, MinuteKey(now)),
              rejected |-> TRUE]
    /\ UNCHANGED <<now, medications, logs, profiles, activeProfileId,
                   notificationPermission, snoozeUntil>>

-----------------------------------------------------------------------------
(* Initial state: the first render and the first run of the reminder      *)
(* effect (which calls checkReminders when permission is already granted). *)
(* Two medications of the default profile, nothing logged, nothing         *)
(* snoozed.                                                                *)

Medication(id, times, stock) ==
    [id |-> id, profileId |-> "default", frequency |-> "DAILY", times |-> times,
     daysOfWeek |-> {}, currentStock |-> stock, lowStockThreshold |-> 1,
     reminderSound |-> "none", refillDate |-> -1, startDate |-> 0]

InitialProfiles == <<[id |-> "default", preferredSound |-> "none"]>>

\* the state after mounting with the stored medications `meds', the stored
\* profiles `ps', the stored active profile and the browser's permission
InitStateOp(meds, ps, active, permission, firstOp) ==
    LET scheduled == IF permission = "granted"
                     THEN ScheduledReminders(meds, <<>>, <<>>, ps, 0)
                     ELSE <<>>
    IN  /\ now = 0
        /\ medications = meds
        /\ logs = <<>>
        /\ snoozedItems = <<>>
        /\ profiles = ps
        /\ activeProfileId = active
        /\ notificationPermission = permission
        /\ lastCheckedMinuteRef = IF permission = "granted" THEN MinuteKey(0) ELSE <<>>
        /\ fired = scheduled
        /\ op = firstOp
        /\ scanCount = IF permission = "granted" THEN 1 ELSE 0
        /\ reminded = [m \in MedIds |-> CountFor(scheduled, m)]
        /\ snoozeUntil = {}

InitState(meds, ps, active, permission) ==
    InitStateOp(meds, ps, active, permission, [name |-> "mount"])

Init ==
    \E s1 \in 0..MaxStock, permission \in Permissions :
        InitState(<<Medication("m1", {0, 1}, s1), Medication("m2", {1}, MaxStock)>>,
                  InitialProfiles, "default", permission)

-----------------------------------------------------------------------------
(* handleLogMedication *)

\* (mutant) the filter keeps the entries it should drop
ClearSnoozesInverted(prev, medId) ==
    SelectSeq(prev, LAMBDA s : s.medicationId = medId)

\* (mutant) logging a dose leaves the registry alone
ClearSnoozesNone(prev, medId) ==
    prev

\* setSnoozedItems(prev => prev.filter(s => s.medicationId !== medId))
ClearSnoozes(prev, medId) ==
    SelectSeq(prev, LAMBDA s : s.medicationId # medId)

\* the low-stock check, made before the log is looked up
LowStockAlerts(meds, permission, medId, status) ==
    LET i == FindMed(meds, medId)
    IN  IF status = "TAKEN" /\ permission = "granted" /\ i # 0
        THEN LET potentialStock == meds[i].currentStock - 1
             IN  IF /\ potentialStock <= meds[i].lowStockThreshold
                    /\ meds[i].currentStock > meds[i].lowStockThreshold
                 THEN <<Notification("lowstock", medId, -1, "alert")>>
                 ELSE <<>>
        ELSE <<>>

\* (mutant) findIndex with the slot test negated
ExistingIndexWrongSlot(ls, medId, todayStr, time) ==
    LET idx == {i \in 1..Len(ls) : /\ ls[i].medicationId = medId
                                   /\ ls[i].dateStr = todayStr
                                   /\ ls[i].scheduledTime # time}
    IN  IF idx = {} THEN 0 ELSE Min(idx)

\* logs.findIndex(...): 1-based, 0 for the code's -1
ExistingIndex(ls, medId, todayStr, time) ==
    LET idx == {i \in 1..Len(ls) : /\ ls[i].medicationId = medId
                                   /\ ls[i].dateStr = todayStr
                                   /\ ls[i].scheduledTime = time}
    IN  IF idx = {} THEN 0 ELSE Min(idx)

\* existingLog.status as the updater of the status change reads it: the
\* handler has set it to `status' by the time an updater run at render reads it
ExistingStatusSeen(existingStatus, status, timing) ==
    IF timing = "atCall" THEN existingStatus ELSE status

\* stock of the medication when an existing entry changes its status
StatusChangeStock(stock, status, existingStatus) ==
    IF status = "TAKEN" THEN stock - 1
    ELSE IF status = "SKIPPED" /\ existingStatus = "TAKEN" THEN stock + 1
    ELSE stock

\* (mutant) the new-entry decrement without Math.max(0, ...)
NewEntryStockNoFloor(stock) ==
    stock - 1

\* stock of the medication when a new TAKEN entry is created
NewEntryStock(stock) ==
    IF stock - 1 > 0 THEN stock - 1 ELSE 0

\* setMedications(prev => prev.map(...)) of the status-change branch
MedicationsAfterChange(meds, medId, status, existingStatus) ==
    [i \in 1..Len(meds) |->
        IF meds[i].id = medId
        THEN [meds[i] EXCEPT !.currentStock =
                  StatusChangeStock(meds[i].currentStock, status, existingStatus)]
        ELSE meds[i]]

\* setMedications(prev => prev.map(...)) of the new-entry branch
MedicationsAfterNewEntry(meds, medId) ==
    [i \in 1..Len(meds) |->
        IF meds[i].id = medId
        THEN [meds[i] EXCEPT !.currentStock = NewEntryStock(meds[i].currentStock)]
        ELSE meds[i]]

\* (mutant) the stock is adjusted without the test existingLog.status !== status
LoggedMedicationsNoStatusTest(meds, ls, medId, status, time, todayStr, timing) ==
    LET existingIndex == ExistingIndex(ls, medId, todayStr, time)
    IN  IF existingIndex > 0
        THEN MedicationsAfterChange(meds, medId, status,
                 ExistingStatusSeen(ls[existingIndex].status, status, timing))
        ELSE IF status = "TAKEN"
             THEN MedicationsAfterNewEntry(meds, medId)
             ELSE meds

\* the medications and the log after the call
LoggedMedications(meds, ls, medId, status, time, todayStr, timing) ==
    LET existingIndex == ExistingIndex(ls, medId, todayStr, time)
    IN  IF existingIndex > 0
        THEN IF ls[existingIndex].status # status
             THEN MedicationsAfterChange(meds, medId, status,
                      ExistingStatusSeen(ls[existingIndex].status, status, timing))
             ELSE meds
        ELSE IF status = "TAKEN"
             THEN MedicationsAfterNewEntry(meds, medId)
             ELSE meds

LoggedLogs(ls, medId, status, time, todayStr, profileId, t) ==
    LET existingIndex == ExistingIndex(ls, medId, todayStr, time)
    IN  IF existingIndex > 0
        THEN [ls EXCEPT ![existingIndex].status = status,
                        ![existingIndex].timestamp = t]
        ELSE Append(ls, [medicationId |-> medId,
                         profileId |-> profileId,
                         timestamp |-> t,
                         status |-> status,
                         scheduledTime |-> time,
                         dateStr |-> todayStr])

\* which branch of the handler a call takes
LogBranch(ls, medId, status, time, todayStr) ==
    LET existingIndex == ExistingIndex(ls, medId, todayStr, time)
    IN  IF existingIndex = 0 THEN "new"
        ELSE IF ls[existingIndex].status # status THEN "change"
        ELSE "same"

handleLogMedication(medId, status, time) ==
    LET todayStr == DateStr(now)
    IN  /\ \E timing \in (IF LogBranch(logs, medId, status, time, todayStr) = "change"
                           THEN UpdaterTimings ELSE {"atCall"}) :
               ReminderEffect(
                   LoggedMedications(medications, logs, medId, status, time, todayStr, timing),
                   LoggedLogs(logs, medId, status, time, todayStr, activeProfileId, now),
                   ClearSnoozes(snoozedItems, medId),
                   notificationPermission,
                   LowStockAlerts(medications, notificationPermission, medId, status))
        /\ op' = [name |-> "log", status |-> status,
                  branch |-> LogBranch(logs, medId, status, time, todayStr)]
        /\ UNCHANGED <<now, profiles, activeProfileId, snoozeUntil>>

\* the "Take Now" button of the card of an AS_NEEDED medication, shown
\* unless the medication starts in the future
TakeNow(medId) ==
    /\ FindMed(medications, medId) # 0
    /\ LET medication == medications[FindMed(medications, medId)]
       IN  /\ medication.frequency = "AS_NEEDED"
           /\ ~(medication.startDate > DateStr(now))
    /\ handleLogMedication(medId, "TAKEN", WallClockMinute(now))

-----------------------------------------------------------------------------
(* handleSnoozeMedication *)

\* (mutant) the entry is added without removing the one of the same key
SnoozedItemsAfterKeepOld(prev, medId, time, wakeUpTime) ==
    Append(prev, [medicationId |-> medId, scheduledTime |-> time, wakeUpTime |-> wakeUpTime])

SnoozedItemsAfter(prev, medId, time, wakeUpTime) ==
    Append(SelectSeq(prev, LAMBDA s : ~(s.medicationId = medId /\ s.scheduledTime = time)),
           [medicationId |-> medId, scheduledTime |-> time, wakeUpTime |-> wakeUpTime])

handleSnoozeMedication(medId, time, minutes) ==
    LET wakeUpTime == now + minutes * StepsPerMinute
    IN  /\ ReminderEffect(medications, logs,
                          SnoozedItemsAfter(snoozedItems, medId, time, wakeUpTime),
                          notificationPermission, <<>>)
        /\ snoozeUntil' =
              {e \in snoozeUntil : ~(e.medicationId = medId /\ e.scheduledTime = time)}
              \cup {[medicationId |-> medId, scheduledTime |-> time, until |-> wakeUpTime]}
        /\ op' = [name |-> "snooze",
                  replaced |-> \E i \in 1..Len(snoozedItems) :
                                  /\ snoozedItems[i].medicationId = medId
                                  /\ snoozedItems[i].scheduledTime = time
                                  /\ snoozedItems[i].wakeUpTime # wakeUpTime]
        /\ UNCHANGED <<now, profiles, activeProfileId>>

-----------------------------------------------------------------------------
(* handleRefillMedication, handleDeleteMedication, requestPermission *)

handleRefillMedication(medId, newStock) ==
    /\ ReminderEffect([i \in 1..Len(medications) |->
                          IF medications[i].id = medId
                          THEN [medications[i] EXCEPT !.currentStock = newStock,
                                                      !.refillDate = DateStr(now)]
                          ELSE medications[i]],
                      logs, snoozedItems, notificationPermission, <<>>)
    /\ op' = [name |-> "refill"]
    /\ UNCHANGED <<now, profiles, activeProfileId, snoozeUntil>>

\* the user confirmed the removal
handleDeleteMedication(id) ==
    /\ FindMed(medications, id) # 0
    /\ ReminderEffect(SelectSeq(medications, LAMBDA m : m.id # id),
                      logs, snoozedItems, notificationPermission, <<>>)
    /\ op' = [name |-> "delete"]
    /\ UNCHANGED <<now, profiles, activeProfileId, snoozeUntil>>

\* `permission' is the browser's answer
requestPermission(permission) ==
    /\ notificationPermission # permission
    /\ ReminderEffect(medications, logs, snoozedItems, permission,
                      IF permission = "granted"
                      THEN <<Notification("enabled", "", -1, "chime")>>
                      ELSE <<>>)
    /\ op' = [name |-> "permission"]
    /\ UNCHANGED <<now, profiles, activeProfileId, snoozeUntil>>

\* the "Switch Account" menu: setActiveProfileId(p.id).  activeProfileId is
\* not a dependency of the reminder effect, which therefore does not re-run.
setActiveProfileId(p) ==
    /\ FindProfile(profiles, p) # 0
    /\ p # activeProfileId
    /\ activeProfileId' = p
    /\ fired' = <<>>
    /\ op' = [name |-> "switch"]
    /\ UNCHANGED <<now, medications, logs, snoozedItems, profiles, notificationPermission,
                   lastCheckedMinuteRef, scanCount, reminded, snoozeUntil>>

\* onAdd(newMed) of the form: the medication gets the active profile and is
\* appended; its id is a fresh uuid
handleAddMedication(med) ==
    /\ FindMed(medications, med.id) = 0
    /\ ReminderEffect(Append(medications, [med EXCEPT !.profileId = activeProfileId]),
                      logs, snoozedItems, notificationPermission, <<>>)
    /\ op' = [name |-> "add", id |-> med.id]
    /\ UNCHANGED <<now, profiles, activeProfileId, snoozeUntil>>

\* onUpdate(newMed) of the form opened on an existing medication: the entry
\* with that id is replaced; a profileId the form does not set falls back to
\* the active profile
handleUpdateMedication(updatedMed) ==
    /\ FindMed(medications, updatedMed.id) # 0
    /\ ReminderEffect([i \in 1..Len(medications) |->
                          IF medications[i].id = updatedMed.id
                          THEN updatedMed
                          ELSE medications[i]],
                      logs, snoozedItems, notificationPermission, <<>>)
    /\ op' = [name |-> "update", id |-> updatedMed.id]
    /\ UNCHANGED <<now, profiles, activeProfileId, snoozeUntil>>

-----------------------------------------------------------------------------
(* Loading the persisted state: safeParse.  A stored item is absent        *)
(* (getItem returns null) or a string, here a sequence of characters; the  *)
(* JSON texts among them are the arrays of x: "[]", "[x]", "[x,x]", ...    *)

\* the strings localStorage may hold under a key
StoredItems ==
    {[present |-> FALSE, text |-> <<>>]} \cup
    {[present |-> TRUE, text |-> t] :
        t \in UNION {[1..k -> JsonChars] : k \in 0..MaxItemLen}}

\* JSON.parse(text): the array it denotes, or a SyntaxError
JsonParse(text) ==
    LET n == Len(text)
        inner == SubSeq(text, 2, n - 1)
        wellFormed ==
            /\ n >= 2
            /\ text[1] = "[" /\ text[n] = "]"
            /\ \/ Len(inner) = 0
               \/ /\ Len(inner) % 2 = 1
                  /\ \A i \in 1..Len(inner) :
                         inner[i] = (IF i % 2 = 1 THEN "x" ELSE ",")
    IN  IF wellFormed
        THEN [threw |-> FALSE, value |-> [i \in 1..((n - 1) \div 2) |-> "x"]]
        ELSE [threw |-> TRUE, value |-> <<>>]

\* (mutant) without try/catch: the SyntaxError leaves safeParse
safeParseNoCatch(item, fallback) ==
    IF item.present /\ item.text # <<>>
    THEN [raised |-> JsonParse(item.text).threw, value |-> JsonParse(item.text).value]
    ELSE [raised |-> FALSE, value |-> fallback]

\* try { item ? JSON.parse(item) : fallback } catch { fallback }
safeParse(item, fallback) ==
    IF item.present /\ item.text # <<>>
    THEN IF JsonParse(item.text).threw
         THEN [raised |-> FALSE, value |-> fallback]
         ELSE [raised |-> FALSE, value |-> JsonParse(item.text).value]
    ELSE [raised |-> FALSE, value |-> fallback]

\* the fallback the initialiser of each collection passes
Fallback(key) == IF key = "medimind_profiles" THEN InitialProfiles ELSE <<>>

\* the useState initialisers run safeParse on the item `op' holds for one
\* key; the other keys are absent
LoadState ==
    /\ op.name = "stored"
    /\ LET loaded == safeParse(op.item, Fallback(op.key))
       IN  /\ op' = [name |-> "load", key |-> op.key, item |-> op.item,
                     raised |-> loaded.raised, value |-> loaded.value]
           /\ profiles' = IF op.key = "medimind_profiles" /\ ~loaded.raised
                          THEN loaded.value ELSE profiles
           /\ medications' = IF op.key = "medimind_meds" /\ ~loaded.raised
                             THEN loaded.value ELSE medications
           /\ logs' = IF op.key = "medimind_logs" /\ ~loaded.raised
                      THEN loaded.value ELSE logs
    /\ UNCHANGED <<now, snoozedItems, activeProfileId, notificationPermission,
                   lastCheckedMinuteRef, fired, scanCount, reminded, snoozeUntil>>

-----------------------------------------------------------------------------
(* The medication form: calculateIntervalTimes, handleManualSubmit,        *)
(* handleAddMedication.  A Date of today is its number of minutes since    *)
(* midnight; an "HH:mm" string is the pair <<hours, minutes>>.             *)

EndOfDay == 23 * 60 + 59

\* format(current, 'HH:mm')
FormatHHmm(current) == <<current \div 60, current % 60>>

\* intervalUnit === 'hours' ? intervalVal * 60 : intervalVal
IntervalMins(intervalUnit, intervalVal) ==
    IF intervalUnit = "hours" THEN intervalVal * 60 ELSE intervalVal

\* (mutant) the loop stops before 23:59
NotPastEndOfDayStrict(current) == current < EndOfDay

\* current <= endOfDay
NotPastEndOfDay(current) == current <= EndOfDay

\* while (current <= endOfDay) { push; current = addMinutes(current, intervalMins) }
RECURSIVE IntervalWalk(_, _, _)
IntervalWalk(current, intervalMins, calculatedTimes) ==
    IF NotPastEndOfDay(current)
    THEN IntervalWalk(current + intervalMins, intervalMins,
                      Append(calculatedTimes, FormatHHmm(current)))
    ELSE calculatedTimes

calculateIntervalTimes(intervalStartTime, intervalUnit, intervalVal) ==
    LET startH == intervalStartTime[1]
        startM == intervalStartTime[2]
    IN  IntervalWalk(startH * 60 + startM, IntervalMins(intervalUnit, intervalVal), <<>>)

\* the form is submitted with frequency INTERVAL, as `op' holds it; the new
\* medication goes to handleAddMedication
handleManualSubmit ==
    /\ op.name = "form"
    /\ LET finalTimes == calculateIntervalTimes(op.intervalStartTime, op.intervalUnit,
                                                op.intervalVal)
           newMed == [Medication("m1", finalTimes, 0) EXCEPT
                         !.frequency = "INTERVAL", !.profileId = activeProfileId]
       IN  ReminderEffect(Append(medications, newMed), logs, snoozedItems,
                          notificationPermission, <<>>)
    /\ op' = [op EXCEPT !.name = "submit"]
    /\ UNCHANGED <<now, profiles, activeProfileId, snoozeUntil>>

-----------------------------------------------------------------------------
(* The dashboard: currentMedications, currentLogs, todayLogs, nextDose.    *)
(* An "HH:mm" string is the pair <<hours, minutes>>; the render reads the  *)
(* wall clock's minute of the day, `currentMinutes'.                       *)

currentMedications(meds, active) ==
    SelectSeq(meds, LAMBDA m : \/ m.profileId = active
                               \/ (m.profileId = "none" /\ active = "default"))

currentLogs(ls, active) ==
    SelectSeq(ls, LAMBDA l : \/ l.profileId = active
                             \/ (l.profileId = "none" /\ active = "default"))

todayLogs(ls, todayStr) == SelectSeq(ls, LAMBDA l : l.dateStr = todayStr)

\* the body of med.times.forEach: `upcoming' is <<>> for null
NextDoseVisit(upcoming, med, time, tLogs, currentMinutes) ==
    LET timeMinutes == time[1] * 60 + time[2]
        isLogged == \E j \in 1..Len(tLogs) : /\ tLogs[j].medicationId = med.id
                                               /\ tLogs[j].scheduledTime = time
        diff == timeMinutes - currentMinutes
    IN  IF /\ ~isLogged
           /\ diff > 0 - 60
           /\ (upcoming = <<>> \/ (diff < upcoming[1].diff /\ diff >= 0 - 60))
        THEN <<[med |-> med.id, time |-> time, diff |-> diff]>>
        ELSE upcoming

\* med.times.forEach from the k-th time on
RECURSIVE NextDoseTimes(_, _, _, _, _)
NextDoseTimes(upcoming, med, k, tLogs, currentMinutes) ==
    IF k > Len(med.times) THEN upcoming
    ELSE NextDoseTimes(NextDoseVisit(upcoming, med, med.times[k], tLogs, currentMinutes),
                       med, k + 1, tLogs, currentMinutes)

\* medications.forEach from the i-th medication on
RECURSIVE NextDoseMeds(_, _, _, _, _)
NextDoseMeds(upcoming, meds, i, tLogs, currentMinutes) ==
    IF i > Len(meds) THEN upcoming
    ELSE NextDoseMeds(IF meds[i].frequency = "AS_NEEDED"
                      THEN upcoming
                      ELSE NextDoseTimes(upcoming, meds[i], 1, tLogs, currentMinutes),
                      meds, i + 1, tLogs, currentMinutes)

nextDose(meds, tLogs, currentMinutes) == NextDoseMeds(<<>>, meds, 1, tLogs, currentMinutes)

\* a render of the dashboard when the wall clock reads `currentMinutes'
Dashboard(currentMinutes) ==
    /\ op' = [name |-> "dashboard", currentMinutes |-> currentMinutes,
              nextDose |-> nextDose(currentMedications(medications, activeProfileId),
                                    todayLogs(currentLogs(logs, activeProfileId),
                                              DateStr(now)),
                                    currentMinutes)]
    /\ fired' = <<>>
    /\ UNCHANGED <<now, medications, logs, snoozedItems, profiles, activeProfileId,
                   notificationPermission, lastCheckedMinuteRef, scanCount, reminded,
                   snoozeUntil>>

\* one evaluation of the loop condition of calculateIntervalTimes, and of
\* the loop body if it holds; `op' holds the locals of the call.  The list is
\* followed up to MaxWalk + 1 elements.
WhileStep ==
    /\ op.name = "loop"
    /\ Len(op.calculatedTimes) <= MaxWalk
    /\ op' = IF NotPastEndOfDay(op.current)
             THEN [op EXCEPT !.calculatedTimes = Append(@, FormatHHmm(op.current)),
                             !.current = @ + op.intervalMins]
             ELSE [op EXCEPT !.name = "returned"]
    /\ UNCHANGED <<now, medications, logs, snoozedItems, profiles, activeProfileId,
                   notificationPermission, lastCheckedMinuteRef, fired, scanCount,
                   reminded, snoozeUntil>>

-----------------------------------------------------------------------------
(* The clock *)

AdvanceClockBy(steps) ==
    /\ now + steps <= MaxNow
    /\ now' = now + steps
    /\ fired' = <<>>
    /\ op' = [name |-> "clock"]
    /\ IF MinuteKey(now + steps) # MinuteKey(now)
       THEN /\ scanCount' = 0
            /\ reminded' = [m \in MedIds |-> 0]
       ELSE UNCHANGED <<scanCount, reminded>>
    /\ snoozeUntil' = {e \in snoozeUntil : e.until > now + steps}
    /\ UNCHANGED <<medications, logs, snoozedItems, profiles, activeProfileId,
                   notificationPermission, lastCheckedMinuteRef>>

\* the next instant at which something runs
AdvanceClock == AdvanceClockBy(1)

\* a minute later
AdvanceMinute == AdvanceClockBy(StepsPerMinute)

-----------------------------------------------------------------------------

(* Specifications.  The handlers take their arguments from small sets; a   *)
(* new log entry is created only while the log holds fewer than MaxLogs    *)
(* entries (MaxPollLogs where the poller runs as well), and a dose is      *)
(* logged only if that leaves every stock at -MaxDebt or more.             *)

LogRoom(medId, time, max) ==
    ExistingIndex(logs, medId, DateStr(now), time) = 0 => Len(logs) < max

DebtRoom ==
    \A i \in 1..Len(medications) : medications[i].currentStock >= 0 - MaxDebt

\* the dose log and the stock of one medication
NextStock ==
    \/ \E s \in Statuses, t \in Slots :
           LogRoom("m1", t, MaxLogs) /\ handleLogMedication("m1", s, t) /\ DebtRoom'
    \/ \E n \in 0..MaxStock : handleRefillMedication("m1", n)
    \/ AdvanceMinute

SpecStock == Init /\ [][NextStock]_vars

\* both medications fully stocked
InitStocked ==
    /\ Init
    /\ \A i \in 1..Len(medications) : medications[i].currentStock = MaxStock

\* the dose log of all medications, both out of stock; the poller, which
\* never writes the log, is left out: notifications are not permitted
InitLogs ==
    InitState(<<Medication("m1", {0, 1}, 0), Medication("m2", {1}, 0)>>,
              InitialProfiles, "default", "denied")

NextLogs ==
    \/ \E m \in MedIds, s \in Statuses, t \in Slots :
           LogRoom(m, t, MaxLogs) /\ handleLogMedication(m, s, t) /\ DebtRoom'
    \/ AdvanceMinute

SpecLogs == InitLogs /\ [][NextLogs]_vars

\* the poller, the snooze registry and the dose log
InitPoll ==
    /\ InitStocked
    /\ notificationPermission = "granted"

\* the slots the cards offer: those of each medication's `times'
OfferedSlots == {<<"m1", 0>>, <<"m1", 1>>, <<"m2", 1>>}

NextPoll ==
    \/ \E k \in OfferedSlots :
           LogRoom(k[1], k[2], MaxPollLogs) /\ handleLogMedication(k[1], "TAKEN", k[2])
               /\ DebtRoom'
    \/ \E k \in OfferedSlots, d \in SnoozeMinutes : handleSnoozeMedication(k[1], k[2], d)
    \/ checkReminders
    \/ AdvanceClock

SpecPoll == InitPoll /\ [][NextPoll]_vars

\* the snooze registry and the dose log, with and without permission
NextClear ==
    \/ \E t \in Slots, s \in Statuses :
           LogRoom("m1", t, MaxPollLogs) /\ handleLogMedication("m1", s, t) /\ DebtRoom'
    \/ \E k \in OfferedSlots, d \in SnoozeMinutes : handleSnoozeMedication(k[1], k[2], d)
    \/ AdvanceMinute

SpecClear == InitStocked /\ [][NextClear]_vars

\* the poller, the snooze registry and the removal of medications
NextWake ==
    \/ \E k \in OfferedSlots, d \in SnoozeMinutes : handleSnoozeMedication(k[1], k[2], d)
    \/ \E m \in MedIds : handleDeleteMedication(m)
    \/ checkReminders
    \/ AdvanceClock

SpecWake == InitPoll /\ [][NextWake]_vars

\* the scheduled scan over medications of every frequency, schedule, start
\* date and owner, under either active profile
TwoProfiles == <<[id |-> "default", preferredSound |-> "none"],
                 [id |-> "p2", preferredSound |-> "none"]>>

InitDue ==
    \E f \in Frequencies, days \in SUBSET WeekDays, ts \in SUBSET Slots,
       sd \in StartDates, owner \in ProfileIds, active \in ProfileIds :
        InitState(<<[Medication("m1", ts, MaxStock) EXCEPT !.frequency = f,
                                                           !.daysOfWeek = days,
                                                           !.startDate = sd,
                                                           !.profileId = owner],
                    Medication("m2", {1}, MaxStock)>>,
                  TwoProfiles, active, "granted")

NextDue ==
    \/ checkReminders
    \/ \E p \in ProfileIds : setActiveProfileId(p)
    \/ AdvanceClock

SpecDue == InitDue /\ [][NextDue]_vars

\* the form of a fresh installation, filled in for an INTERVAL medication
\* whose walk to the end of the day takes at most MaxWalk steps
InitForm ==
    \E h \in StartHours, m \in StartMinutes, u \in IntervalUnits, v \in IntervalVals :
        /\ (EndOfDay - (h * 60 + m)) \div IntervalMins(u, v) < MaxWalk
        /\ InitStateOp(<<>>, InitialProfiles, "default", "denied",
                       [name |-> "form", intervalStartTime |-> <<h, m>>,
                        intervalUnit |-> u, intervalVal |-> v])

NextForm == handleManualSubmit

SpecForm == InitForm /\ [][NextForm]_vars

\* the dashboard over two medications with "HH:mm" schedules; doses are
\* logged from the cards and the dashboard is rendered at several times of
\* the day.  Notifications are not permitted: the poller does not run.
InitNextDose ==
    \E f \in Frequencies, ts1 \in DoseTimes, ts2 \in DoseTimes, sd \in StartDates :
        InitState(<<[Medication("m1", ts1, MaxStock) EXCEPT !.frequency = f,
                                                            !.startDate = sd],
                    Medication("m2", ts2, MaxStock)>>,
                  InitialProfiles, "default", "denied")

NextNextDose ==
    \/ \E i \in 1..Len(medications) :
           \E k \in 1..Len(medications[i].times) :
               /\ LogRoom(medications[i].id, medications[i].times[k], MaxLogs)
               /\ handleLogMedication(medications[i].id, "TAKEN", medications[i].times[k])
    \/ \E c \in ClockReadings : Dashboard(c)

SpecNextDose == InitNextDose /\ [][NextNextDose]_vars

\* the sounds of snooze and scheduled reminders of one medication, for every
\* sound of the medication, every owner and every preference of the profiles
InitSound ==
    \E sound \in Sounds, owner \in Owners, pref1 \in PreferredSounds,
       pref2 \in PreferredSounds :
        InitState(<<[Medication("m1", {0, 1}, MaxStock) EXCEPT !.reminderSound = sound,
                                                               !.profileId = owner]>>,
                  <<[id |-> "default", preferredSound |-> pref1],
                    [id |-> "p2", preferredSound |-> pref2]>>,
                  "default", "granted")

NextSound ==
    \/ \E t \in Slots, d \in SnoozeMinutes : handleSnoozeMedication("m1", t, d)
    \/ checkReminders
    \/ AdvanceClock

SpecSound == InitSound /\ [][NextSound]_vars

\* the poller with a notifier that may fail
NextNotify ==
    \/ checkReminders
    \/ checkRemindersNotifierFails
    \/ AdvanceClock

SpecNotify == InitDue /\ [][NextNotify]_vars

\* start-up with one stored item under one key
InitStored ==
    \E key \in StorageKeys, item \in StoredItems :
        InitStateOp(<<>>, InitialProfiles, "default", "denied",
                    [name |-> "stored", key |-> key, item |-> item])

NextLoad == LoadState

SpecLoad == InitStored /\ [][NextLoad]_vars

\* the poller and the dose log, doses being taken or skipped at any time of
\* the day
NextDedup ==
    \/ \E k \in OfferedSlots, st \in Statuses :
           LogRoom(k[1], k[2], MaxPollLogs) /\ handleLogMedication(k[1], st, k[2])
               /\ DebtRoom'
    \/ checkReminders
    \/ AdvanceClock

SpecDedup == InitPoll /\ [][NextDedup]_vars

\* the registry over time, for one medication: snoozes whose wake-up time
\* lies within the horizon, doses taken, ticks and the clock.  While permission is granted
\* the interval keeps calling checkReminders and time passes: both are
\* weakly fair.
InitLinger ==
    InitState(<<Medication("m1", {0, 1}, MaxStock)>>, InitialProfiles, "default",
              "granted")

NextLinger ==
    \/ \E t \in Slots, d \in SnoozeMinutes :
           /\ now + d * StepsPerMinute <= MaxNow
           /\ handleSnoozeMedication("m1", t, d)
    \/ \E t \in Slots :
           LogRoom("m1", t, MaxPollLogs) /\ handleLogMedication("m1", "TAKEN", t)
               /\ DebtRoom'
    \/ checkReminders
    \/ AdvanceClock

SpecLinger ==
    InitLinger /\ [][NextLinger]_vars /\ WF_vars(checkReminders) /\ WF_vars(AdvanceClock)

\* calculateIntervalTimes step by step, entered with any value of the
\* interval field, zero and negative numbers included; for the positive ones
\* the walk takes at most MaxWalk steps.  A loop that is entered keeps running.
InitWalk ==
    \E h \in StartHours, m \in StartMinutes, u \in IntervalUnits, v \in IntervalFieldVals :
        /\ v >= 1 => (EndOfDay - (h * 60 + m)) \div IntervalMins(u, v) < MaxWalk
        /\ InitStateOp(<<>>, InitialProfiles, "default", "denied",
                       [name |-> "loop", intervalVal |-> v, current |-> h * 60 + m,
                        intervalMins |-> IntervalMins(u, v), calculatedTimes |-> <<>>])

NextWalk == WhileStep

SpecWalk == InitWalk /\ [][NextWalk]_vars /\ WF_vars(WhileStep)

\* the poller while medications are added and edited and doses snoozed: one
\* medication with the slot 0 to start with, permission granted
InitClosed ==
    InitState(<<Medication("m1", {0}, MaxStock)>>, InitialProfiles, "default", "granted")

NextClosed ==
    \/ \E t \in Slots : handleAddMedication(Medication("m2", {t}, MaxStock))
    \/ \E times \in SUBSET Slots : handleUpdateMedication(Medication("m1", times, MaxStock))
    \/ \E t \in Slots, d \in SnoozeMinutes :
           /\ t \in medications[FindMed(medications, "m1")].times
           /\ handleSnoozeMedication("m1", t, d)
    \/ checkReminders
    \/ AdvanceClock

SpecClosed == InitClosed /\ [][NextClosed]_vars

\* snoozes, logged doses and removals of medications under the poller
InitCancel ==
    InitState(<<Medication("m1", {0, 1}, MaxStock), Medication("m2", {1}, MaxStock)>>,
              InitialProfiles, "default", "granted")

NextCancel ==
    \/ \E t \in Slots, d \in SnoozeMinutes : handleSnoozeMedication("m1", t, d)
    \/ \E t \in Slots :
           LogRoom("m1", t, MaxPollLogs) /\ handleLogMedication("m1", "TAKEN", t)
               /\ DebtRoom'
    \/ handleDeleteMedication("m1")
    \/ checkRemindersWoken
    \/ AdvanceClock

SpecCancel == InitCancel /\ [][NextCancel]_vars

\* on-demand doses: two AS_NEEDED medications, m1 with any stock, with and
\* without permission
AsNeeded(id, stock) ==
    [Medication(id, {}, stock) EXCEPT !.frequency = "AS_NEEDED"]

InitTakeNow ==
    \E s1 \in 0..MaxStock, permission \in Permissions :
        InitState(<<AsNeeded("m1", s1), AsNeeded("m2", MaxStock)>>,
                  InitialProfiles, "default", permission)

NextTakeNow ==
    \/ \E m \in MedIds : LogRoom(m, WallClockMinute(now), MaxLogs) /\ TakeNow(m)
    \/ AdvanceClock

SpecTakeNow == InitTakeNow /\ [][NextTakeNow]_vars

\* the application with and without permission, minute by minute: doses
\* logged and snoozed, and the poller, which runs when permitted
NextInert ==
    \/ \E t \in Slots, s \in Statuses :
           LogRoom("m1", t, MaxPollLogs) /\ handleLogMedication("m1", s, t) /\ DebtRoom'
    \/ \E k \in OfferedSlots, d \in SnoozeMinutes : handleSnoozeMedication(k[1], k[2], d)
    \/ checkReminders
    \/ AdvanceMinute

SpecInert == InitStocked /\ [][NextInert]_vars

-----------------------------------------------------------------------------
(* Vocabulary of the properties *)

StockOf(meds, medId) == meds[FindMed(meds, medId)].currentStock

\* the positions of the entries of (medication, date, slot)
EntriesFor(ls, medId, dateStr, time) ==
    {i \in 1..Len(ls) : /\ ls[i].medicationId = medId
                        /\ ls[i].dateStr = dateStr
                        /\ ls[i].scheduledTime = time}

Max0(n) == IF n > 0 THEN n ELSE 0

CountFired(ns, kind, medId, time) ==
    Cardinality({i \in 1..Len(ns) : /\ ns[i].kind = kind
                                    /\ ns[i].medicationId = medId
                                    /\ ns[i].time = time})

\* stock and log after logDose(medId, status, time) on (meds, ls), today
StockAfterLog(meds, ls, medId, status, time, timing) ==
    LoggedMedications(meds, ls, medId, status, time, DateStr(now), timing)

LogsAfterLog(ls, medId, status, time) ==
    LoggedLogs(ls, medId, status, time, DateStr(now), activeProfileId, now)

\* this step is the call logDose(medId, status, time)
LogStep(medId, status, time) ==
    /\ op'.name = "log"
    /\ op'.status = status
    /\ handleLogMedication(medId, status, time)

\* this step is the call snoozeDose(medId, time, minutes)
SnoozeStep(medId, time, minutes) ==
    /\ op'.name = "snooze"
    /\ handleSnoozeMedication(medId, time, minutes)

\* this step is a tick of the poller
TickStep ==
    /\ op'.name = "tick"
    /\ checkReminders

\* section 4.1 of the specification: the slot is one of the medication's
\* scheduled times on that day of the week
ScheduledOn(med, slot, dayOfWeek) ==
    /\ slot \in med.times
    /\ \/ med.frequency = "DAILY"
       \/ /\ med.frequency = "WEEKLY"
          /\ (med.daysOfWeek = {} \/ dayOfWeek \in med.daysOfWeek)

\* the registry entries of (medication, slot)
SnoozesFor(snoozes, medId, time) ==
    {j \in 1..Len(snoozes) : /\ snoozes[j].medicationId = medId
                             /\ snoozes[j].scheduledTime = time}

-----------------------------------------------------------------------------
(* C1  Idempotent re-logging.  A logDose whose status equals the status of *)
(* the entry that (m, today, t) already has leaves the stock and every     *)
(* other field of the medications unchanged, adds no entry, and changes    *)
(* nothing in the log but that entry's timestamp, which becomes now.  In   *)
(* particular logDose(m, TAKEN, t) twice in a row, from any reachable      *)
(* state, leaves the stock and the log (timestamps aside, the calls being  *)
(* made at the same instant) as one call leaves them: one decrement and    *)
(* one entry of (m, today, t).                                             *)

C1_SameStatusStep ==
    \A s \in Statuses, t \in Slots :
        (/\ LogStep("m1", s, t)
         /\ \E i \in EntriesFor(logs, "m1", DateStr(now), t) : logs[i].status = s)
        => /\ medications' = medications
           /\ Len(logs') = Len(logs)
           /\ \A i \in 1..Len(logs) :
                  IF i \in EntriesFor(logs, "m1", DateStr(now), t)
                  THEN logs'[i] = [logs[i] EXCEPT !.timestamp = now]
                  ELSE logs'[i] = logs[i]

C1_TwiceInARow ==
    \A t \in Slots, x1 \in UpdaterTimings, x2 \in UpdaterTimings :
        LET meds1 == StockAfterLog(medications, logs, "m1", "TAKEN", t, x1)
            logs1 == LogsAfterLog(logs, "m1", "TAKEN", t)
            meds2 == StockAfterLog(meds1, logs1, "m1", "TAKEN", t, x2)
            logs2 == LogsAfterLog(logs1, "m1", "TAKEN", t)
        IN  /\ meds2 = meds1
            /\ logs2 = logs1
            /\ Cardinality(EntriesFor(logs2, "m1", DateStr(now), t)) = 1
            /\ EntriesFor(logs, "m1", DateStr(now), t) = {}
                   => /\ StockOf(meds2, "m1") = Max0(StockOf(medications, "m1") - 1)
                      /\ Len(logs2) = Len(logs) + 1

C1_IdempotentRelog == [][C1_SameStatusStep]_vars /\ []C1_TwiceInARow

\* a TAKEN slot was logged TAKEN again, later in the day
C1_Witness ==
    /\ op.name = "log" /\ op.branch = "same" /\ op.status = "TAKEN"
    /\ Len(logs) = 1
    /\ logs[1].timestamp = now /\ now > 0
    /\ logs[1].status = "TAKEN"

-----------------------------------------------------------------------------
(* C2  Toggling round trip.  From every reachable state with stock s >= 0  *)
(* (s = 0 included) and every slot t not logged today,                     *)
(* logDose(m, TAKEN, t) then logDose(m, SKIPPED, t) gives stock s again    *)
(* and exactly one entry of (m, today, t), SKIPPED.                        *)

C2_ToggleRestoresStock ==
    \A t \in Slots, x1 \in UpdaterTimings, x2 \in UpdaterTimings :
        (/\ StockOf(medications, "m1") >= 0
         /\ EntriesFor(logs, "m1", DateStr(now), t) = {})
        => LET meds1 == StockAfterLog(medications, logs, "m1", "TAKEN", t, x1)
               logs1 == LogsAfterLog(logs, "m1", "TAKEN", t)
               meds2 == StockAfterLog(meds1, logs1, "m1", "SKIPPED", t, x2)
               logs2 == LogsAfterLog(logs1, "m1", "SKIPPED", t)
           IN  /\ StockOf(meds2, "m1") = StockOf(medications, "m1")
               /\ Cardinality(EntriesFor(logs2, "m1", DateStr(now), t)) = 1
               /\ \A i \in EntriesFor(logs2, "m1", DateStr(now), t) :
                      logs2[i].status = "SKIPPED"

-----------------------------------------------------------------------------
(* C3  The stock is never negative: after any sequence of logDose calls    *)
(* and refills to a total >= 0, from stocks >= 0, every medication's       *)
(* currentStock is >= 0.                                                   *)

C3_StockNeverNegative ==
    \A i \in 1..Len(medications) : medications[i].currentStock >= 0

-----------------------------------------------------------------------------
(* C4  Stock floor of first-time TAKEN logs.  A TAKEN log of a slot not    *)
(* yet logged today takes a stock s >= 0 to max(0, s - 1); and from every  *)
(* reachable state with stock s >= 0, TAKEN logs of k distinct slots not   *)
(* yet logged give max(0, s - k), never less than 0 (k = 1, 2: the slots   *)
(* of a day).                                                              *)

C4_FirstTakenStep ==
    \A t \in Slots :
        (/\ LogStep("m1", "TAKEN", t)
         /\ EntriesFor(logs, "m1", DateStr(now), t) = {}
         /\ StockOf(medications, "m1") >= 0)
        => StockOf(medications', "m1") = Max0(StockOf(medications, "m1") - 1)

C4_TwoSlots ==
    \A t1 \in Slots, t2 \in Slots, x1 \in UpdaterTimings, x2 \in UpdaterTimings :
        (/\ t1 # t2
         /\ StockOf(medications, "m1") >= 0
         /\ EntriesFor(logs, "m1", DateStr(now), t1) = {}
         /\ EntriesFor(logs, "m1", DateStr(now), t2) = {})
        => LET meds1 == StockAfterLog(medications, logs, "m1", "TAKEN", t1, x1)
               logs1 == LogsAfterLog(logs, "m1", "TAKEN", t1)
               meds2 == StockAfterLog(meds1, logs1, "m1", "TAKEN", t2, x2)
           IN  /\ StockOf(meds1, "m1") = Max0(StockOf(medications, "m1") - 1)
               /\ StockOf(meds2, "m1") = Max0(StockOf(medications, "m1") - 2)

C4_StockFloor == [][C4_FirstTakenStep]_vars /\ []C4_TwoSlots

\* both slots of today were logged TAKEN for the first time, and the stock is 0
C4_Witness ==
    /\ op.name = "log" /\ op.branch = "new" /\ op.status = "TAKEN"
    /\ StockOf(medications, "m1") = 0
    /\ \A t \in Slots :
           \E i \in EntriesFor(logs, "m1", DateStr(now), t) : logs[i].status = "TAKEN"

-----------------------------------------------------------------------------
(* C5  The low-stock alert fires exactly on a threshold crossing.  With    *)
(* notifications permitted, a logDose call emits one low-stock             *)
(* notification if that call moved the stock from above the threshold to   *)
(* at or below it, and none otherwise.                                     *)

C5_CrossingStep ==
    \A s \in Statuses, t \in Slots :
        (LogStep("m1", s, t) /\ notificationPermission = "granted")
        => LET i == FindMed(medications, "m1")
               crossed == /\ medications[i].currentStock > medications[i].lowStockThreshold
                          /\ medications'[i].currentStock <= medications'[i].lowStockThreshold
           IN  CountFired(fired', "lowstock", "m1", -1) = IF crossed THEN 1 ELSE 0

C5_AlertIffCrossing == [][C5_CrossingStep]_vars

-----------------------------------------------------------------------------
(* C6  Log uniqueness.  The log never holds two entries of the same        *)
(* (medicationId, dateStr, scheduledTime).  A logDose for a tuple that has *)
(* an entry overwrites its status and timestamp in place and adds none; a  *)
(* logDose for a tuple without one appends exactly one entry.              *)

C6_Unique ==
    \A i \in 1..Len(logs), j \in 1..Len(logs) :
        (/\ logs[i].medicationId = logs[j].medicationId
         /\ logs[i].dateStr = logs[j].dateStr
         /\ logs[i].scheduledTime = logs[j].scheduledTime) => i = j

C6_LogStep ==
    \A m \in MedIds, s \in Statuses, t \in Slots :
        LogStep(m, s, t)
        => LET old == EntriesFor(logs, m, DateStr(now), t)
           IN  IF old # {}
               THEN /\ Len(logs') = Len(logs)
                    /\ \A i \in 1..Len(logs) :
                           IF i \in old
                           THEN logs'[i] = [logs[i] EXCEPT !.status = s,
                                                           !.timestamp = now]
                           ELSE logs'[i] = logs[i]
               ELSE /\ Len(logs') = Len(logs) + 1
                    /\ SubSeq(logs', 1, Len(logs)) = logs
                    /\ logs'[Len(logs')].medicationId = m
                    /\ logs'[Len(logs')].dateStr = DateStr(now)
                    /\ logs'[Len(logs')].scheduledTime = t
                    /\ logs'[Len(logs')].status = s
                    /\ logs'[Len(logs')].timestamp = now

C6_LogUniqueness == []C6_Unique /\ [][C6_LogStep]_vars

\* an entry was overwritten in place while the same slot of another day and
\* another medication keep their own entries
C6_Witness ==
    /\ op.name = "log" /\ op.branch = "change"
    /\ Len(logs) = 2
    /\ logs[1].timestamp = now
    /\ logs[2].timestamp < now
    /\ logs[1].scheduledTime = logs[2].scheduledTime

-----------------------------------------------------------------------------
(* C7  At most one scheduled reminder per slot.  Within one calendar       *)
(* minute the scheduled scan runs at most once, however many ticks fall in *)
(* the minute, so a medication gets at most one scheduled reminder in it;  *)
(* the run that scans fires exactly one reminder for each medication that  *)
(* is due at that minute, unlogged for it today and not snoozed for it,    *)
(* and none for any other; a run that does not scan fires none.            *)

C7_OncePerMinute ==
    /\ scanCount <= 1
    /\ \A m \in MedIds : reminded[m] <= 1

C7_ScanStep ==
    scanCount' = scanCount + 1
    => \A m \in MedIds, t \in Slots :
           LET i == FindMed(medications', m)
               eligible ==
                   /\ i # 0
                   /\ t = TimeStr(now)
                   /\ ScheduledOn(medications'[i], t, DayOfWeek(now))
                   /\ EntriesFor(logs', m, DateStr(now), t) = {}
                   \* not snoozed when the scan ran: neither still in the
                   \* registry nor woken by this very run
                   /\ SnoozesFor(snoozedItems', m, t) = {}
                   /\ CountFired(fired', "snooze", m, t) = 0
           IN  CountFired(fired', "scheduled", m, t) = IF eligible THEN 1 ELSE 0

C7_NoScanStep ==
    scanCount' = scanCount
    => \A i \in 1..Len(fired') : fired'[i].kind # "scheduled"

C7_OneReminderPerSlot ==
    []C7_OncePerMinute /\ [][C7_ScanStep /\ C7_NoScanStep]_vars

\* a second tick in the minute of a reminder that is still unanswered
C7_Witness ==
    /\ op.name = "tick" /\ ~op.scanned
    /\ now % StepsPerMinute = 1
    /\ scanCount = 1
    /\ reminded["m1"] = 1
    /\ fired = <<>>
    /\ logs = <<>> /\ snoozedItems = <<>>
    /\ TimeStr(now) \in medications[FindMed(medications, "m1")].times

-----------------------------------------------------------------------------
(* C8  Snooze suppresses until wake-up.  As stated: after                  *)
(* snoozeDose(m, t, d) at instant T, no tick before T + d fires any        *)
(* reminder for (m, t).                                                    *)

C8_SuppressedUntilWake ==
    \A i \in 1..Len(fired) :
        fired[i].kind \in {"scheduled", "snooze"}
        => ~\E e \in snoozeUntil : /\ e.medicationId = fired[i].medicationId
                                   /\ e.scheduledTime = fired[i].time
                                   /\ now < e.until

(* C8, amended.  snoozeDose(m, t, d) at instant T leaves exactly one       *)
(* registry entry of (m, t), with wake-up time T + d; an entry that has    *)
(* not woken leaves the registry only by a logDose for m (any slot) or by  *)
(* a new snoozeDose(m, t, _); and no run of the poller before the wake-up  *)
(* time of an entry that is still in the registry fires a reminder for     *)
(* its (m, t).                                                             *)

C8_NoFireWhilePending ==
    \A i \in 1..Len(fired) :
        fired[i].kind \in {"scheduled", "snooze"}
        => \A j \in SnoozesFor(snoozedItems, fired[i].medicationId, fired[i].time) :
               ~(now < snoozedItems[j].wakeUpTime)

C8_SnoozeCreates ==
    \A k \in OfferedSlots, d \in SnoozeMinutes :
        SnoozeStep(k[1], k[2], d)
        => /\ Cardinality(SnoozesFor(snoozedItems', k[1], k[2])) = 1
           /\ \A j \in SnoozesFor(snoozedItems', k[1], k[2]) :
                  snoozedItems'[j].wakeUpTime = now + d * StepsPerMinute

C8_PendingKept ==
    \A j \in 1..Len(snoozedItems) :
        now' < snoozedItems[j].wakeUpTime
        => \/ \E k \in 1..Len(snoozedItems') : snoozedItems'[k] = snoozedItems[j]
           \/ \E s \in Statuses, t \in Slots : LogStep(snoozedItems[j].medicationId, s, t)
           \/ \E d \in SnoozeMinutes :
                  SnoozeStep(snoozedItems[j].medicationId, snoozedItems[j].scheduledTime, d)

C8_SuppressedWhileRegistered ==
    []C8_NoFireWhilePending /\ [][C8_SnoozeCreates /\ C8_PendingKept]_vars

\* the scan of a minute ran, reminded another medication, and kept silent
\* about a due and unlogged slot that is snoozed
C8_Witness ==
    /\ op.name = "tick" /\ op.scanned
    /\ \E j \in 1..Len(snoozedItems) :
           LET e == snoozedItems[j]
               i == FindMed(medications, e.medicationId)
           IN  /\ e.scheduledTime = TimeStr(now)
               /\ now < e.wakeUpTime
               /\ i # 0
               /\ ScheduledOn(medications[i], TimeStr(now), DayOfWeek(now))
               /\ EntriesFor(logs, e.medicationId, DateStr(now), TimeStr(now)) = {}
               /\ CountFired(fired, "scheduled", e.medicationId, TimeStr(now)) = 0
    /\ \E i \in 1..Len(fired) : fired[i].kind = "scheduled"

-----------------------------------------------------------------------------
(* C9  Snooze fires once.  For every registry entry (m, t, w),             *)
(* the first tick at or after w fires exactly one notification for (m, t)  *)
(* and removes the entry.                                                  *)

C9_WakeStep ==
    TickStep
    => \A j \in 1..Len(snoozedItems) :
           now >= snoozedItems[j].wakeUpTime
           => /\ CountFired(fired', "snooze", snoozedItems[j].medicationId,
                            snoozedItems[j].scheduledTime) = 1
              /\ \A k \in 1..Len(snoozedItems') : snoozedItems'[k] # snoozedItems[j]

C9_FiresOnce == [][C9_WakeStep]_vars

-----------------------------------------------------------------------------
(* C10  Logging clears that medication's snoozes.  logDose(m, _, _)        *)
(* removes every registry entry of m, whatever its slot, and keeps the     *)
(* entries of the other medications unchanged and in order; the run of     *)
(* the poller that follows the render (permission granted) drops, as any   *)
(* run does, those of them whose wake-up time has passed.                  *)

C10_LogStep ==
    \A s \in Statuses, t \in Slots :
        LogStep("m1", s, t)
        => /\ SnoozesFor(snoozedItems', "m1", 0) \cup SnoozesFor(snoozedItems', "m1", 1) = {}
           /\ snoozedItems' =
                  SelectSeq(snoozedItems,
                      LAMBDA e : /\ e.medicationId # "m1"
                                 /\ (notificationPermission = "granted"
                                        => now < e.wakeUpTime))

C10_LogClearsSnoozes == [][C10_LogStep]_vars

\* a dose was logged while a snooze of that medication was pending: its
\* entry is gone and the entry of the other medication is still there
C10_Witness ==
    /\ op.name = "log"
    /\ \E e \in snoozeUntil : e.medicationId = "m1" /\ now < e.until
    /\ \A j \in 1..Len(snoozedItems) : snoozedItems[j].medicationId # "m1"
    /\ \E j \in 1..Len(snoozedItems) : snoozedItems[j].medicationId = "m2"


-----------------------------------------------------------------------------
(* C11  Snooze registry key uniqueness.  The registry never holds two      *)
(* entries of one (medicationId, scheduledTime); snoozeDose(m, t, d)       *)
(* leaves exactly one entry of (m, t), with wakeUpTime = now + d minutes,  *)
(* and the entries of the other keys as they were, in their order (those   *)
(* whose wake-up time has come are removed by the poll that the re-render  *)
(* starts).                                                                *)

OtherKeys(snoozes, medId, time) ==
    SelectSeq(snoozes, LAMBDA s : ~(s.medicationId = medId /\ s.scheduledTime = time))

C11_Unique ==
    \A m \in MedIds, t \in Slots : Cardinality(SnoozesFor(snoozedItems, m, t)) <= 1

C11_SnoozeStep ==
    \A k \in OfferedSlots, d \in SnoozeMinutes :
        SnoozeStep(k[1], k[2], d) =>
            /\ \A j \in 1..Len(snoozedItems') :
                   (snoozedItems'[j].medicationId = k[1]
                        /\ snoozedItems'[j].scheduledTime = k[2])
                   => snoozedItems'[j].wakeUpTime = now + d * StepsPerMinute
            /\ Cardinality(SnoozesFor(snoozedItems', k[1], k[2])) = 1
            /\ OtherKeys(snoozedItems', k[1], k[2])
                   = OtherKeys(RemainingSnoozes(snoozedItems, now), k[1], k[2])

\* C11: one entry per key, and snoozing an existing key replaces its entry
C11_OneEntryPerKey == []C11_Unique /\ [][C11_SnoozeStep]_vars

\* a snooze has just replaced an entry that had another wake-up time, while
\* the registry holds an entry of another key
C11_Witness ==
    /\ op.name = "snooze"
    /\ op.replaced
    /\ Len(snoozedItems) >= 2

-----------------------------------------------------------------------------
(* C12  DAILY due-check.  Whenever the scheduled scan has run (at mount or *)
(* on a tick), a DAILY medication with nothing logged and nothing snoozed  *)
(* has been reminded of the current HH:mm exactly if that HH:mm is in its  *)
(* `times', on every day of the week and whatever its daysOfWeek; it is    *)
(* reminded of no other HH:mm.                                             *)

\* the scheduled scan ran in the step that led to this state
Scanned == op.name = "mount" \/ (op.name = "tick" /\ op.scanned)

\* the medication has no entry today and no snooze for the current slot
Untouched(med) ==
    /\ ~IsLogged(logs, med.id, DateStr(now), TimeStr(now))
    /\ SnoozesFor(snoozedItems, med.id, TimeStr(now)) = {}

\* the scan reminded of `med' at the HH:mm values of `due', and only there
RemindedExactlyAt(med, due) ==
    \A t \in Slots :
        CountFired(fired, "scheduled", med.id, t)
            = IF t = TimeStr(now) /\ t \in due THEN 1 ELSE 0

\* C12: a DAILY medication is due exactly at its `times', every day
C12_DailyDue ==
    Scanned =>
        \A i \in 1..Len(medications) :
            (medications[i].frequency = "DAILY" /\ Untouched(medications[i]))
            => RemindedExactlyAt(medications[i], medications[i].times)

\* a DAILY medication whose daysOfWeek excludes today was reminded on a tick
C12_Witness ==
    /\ op.name = "tick" /\ op.scanned
    /\ \E i \in 1..Len(medications) :
          /\ medications[i].frequency = "DAILY"
          /\ medications[i].daysOfWeek # {}
          /\ DayOfWeek(now) \notin medications[i].daysOfWeek
          /\ CountFired(fired, "scheduled", medications[i].id, TimeStr(now)) = 1

-----------------------------------------------------------------------------
(* C13  WEEKLY due-check.  Whenever the scheduled scan has run, a WEEKLY   *)
(* medication with nothing logged and nothing snoozed whose daysOfWeek is  *)
(* non-empty and does not contain today's weekday has been reminded of no  *)
(* HH:mm, whatever its `times'; with an empty daysOfWeek, or one that      *)
(* contains today's weekday, it has been reminded of the current HH:mm     *)
(* exactly if that HH:mm is in `times'.  (An absent daysOfWeek is the      *)
(* empty one: the scan tests `med.daysOfWeek && med.daysOfWeek.length'.)   *)

C13_WeeklyDue ==
    Scanned =>
        \A i \in 1..Len(medications) :
            (medications[i].frequency = "WEEKLY" /\ Untouched(medications[i]))
            => IF /\ medications[i].daysOfWeek # {}
                  /\ DayOfWeek(now) \notin medications[i].daysOfWeek
               THEN RemindedExactlyAt(medications[i], {})
               ELSE RemindedExactlyAt(medications[i], medications[i].times)

\* on the second day, a tick scanned a minute that is in the `times' of a
\* WEEKLY medication limited to the first day's weekday, and fired nothing
\* for it
C13_Witness ==
    /\ op.name = "tick" /\ op.scanned
    /\ DateStr(now) = 1
    /\ \E i \in 1..Len(medications) :
          /\ medications[i].frequency = "WEEKLY"
          /\ medications[i].daysOfWeek = {0}
          /\ TimeStr(now) \in medications[i].times
          /\ CountFired(fired, "scheduled", medications[i].id, TimeStr(now)) = 0

\* a WEEKLY medication with an empty daysOfWeek was reminded on a tick
C13_WitnessEveryDay ==
    /\ op.name = "tick" /\ op.scanned
    /\ \E i \in 1..Len(medications) :
          /\ medications[i].frequency = "WEEKLY"
          /\ medications[i].daysOfWeek = {}
          /\ CountFired(fired, "scheduled", medications[i].id, TimeStr(now)) = 1

-----------------------------------------------------------------------------
(* C14  AS_NEEDED medications are never due on the timer.  No scheduled    *)
(* scan, at mount or on a tick, fires a reminder for an AS_NEEDED          *)
(* medication, whatever its `times'.                                       *)

C14_AsNeededNeverDue ==
    \A i \in 1..Len(medications) :
        medications[i].frequency = "AS_NEEDED"
        => \A t \in Slots : CountFired(fired, "scheduled", medications[i].id, t) = 0

\* a tick scanned a minute that is in the `times' of an AS_NEEDED medication,
\* reminded of the other medication and not of this one
C14_Witness ==
    /\ op.name = "tick" /\ op.scanned
    /\ fired # <<>>
    /\ \E i \in 1..Len(medications) :
          /\ medications[i].frequency = "AS_NEEDED"
          /\ TimeStr(now) \in medications[i].times
          /\ CountFired(fired, "scheduled", medications[i].id, TimeStr(now)) = 0

-----------------------------------------------------------------------------
(* C15  Start-date gating.  No scheduled scan fires a reminder for a       *)
(* medication whose startDate is after today's date.                       *)

C15_StartDateGating ==
    \A i \in 1..Len(medications) :
        medications[i].startDate > DateStr(now)
        => \A t \in Slots : CountFired(fired, "scheduled", medications[i].id, t) = 0

\* the same for the dashboard: nextDose is never a medication that has not
\* started
C15_NextDoseGating ==
    (op.name = "dashboard" /\ op.nextDose # <<>>)
    => medications[FindMed(medications, op.nextDose[1].med)].startDate <= DateStr(now)

-----------------------------------------------------------------------------
(* C16  INTERVAL expansion.  For a start time s and an interval of i >= 1  *)
(* minutes, the `times' of the submitted medication are exactly the HH:mm  *)
(* of the minutes s + k*i (k >= 0) that are at most 23:59, in ascending    *)
(* order and without repetition; 08:00 every 240 minutes gives 08:00,      *)
(* 12:00, 16:00, 20:00.                                                    *)

\* minute of the day of an HH:mm pair
MinuteOfDay(hhmm) == hhmm[1] * 60 + hhmm[2]

\* { s + k*i : k >= 0, s + k*i <= 23:59 }
IntervalSlots(s, i) == {x \in s..(23 * 60 + 59) : (x - s) % i = 0}

C16_Expansion ==
    op.name = "submit" =>
        LET ts == medications[Len(medications)].times
            s == MinuteOfDay(op.intervalStartTime)
            i == IF op.intervalUnit = "hours" THEN 60 * op.intervalVal ELSE op.intervalVal
        IN  /\ {MinuteOfDay(ts[j]) : j \in 1..Len(ts)} = IntervalSlots(s, i)
            /\ \A j \in 1..Len(ts) : ts[j][1] \in 0..23 /\ ts[j][2] \in 0..59
            /\ \A j \in 1..(Len(ts) - 1) : MinuteOfDay(ts[j]) < MinuteOfDay(ts[j + 1])

\* C16: the example of the specification
C16_Example ==
    (/\ op.name = "submit"
     /\ op.intervalStartTime = <<8, 0>>
     /\ IntervalMins(op.intervalUnit, op.intervalVal) = 240)
    => medications[Len(medications)].times = <<<<8, 0>>, <<12, 0>>, <<16, 0>>, <<20, 0>>>>

\* C16: the computed `times' are the slots of the walk up to 23:59 inclusive
C16_IntervalExpansion == C16_Expansion /\ C16_Example

\* 22:59 every hour was submitted: the last slot falls exactly on 23:59
C16_Witness ==
    /\ op.name = "submit"
    /\ op.intervalStartTime = <<22, 59>>
    /\ op.intervalUnit = "hours" /\ op.intervalVal = 1
    /\ medications[Len(medications)].times = <<<<22, 59>>, <<23, 59>>>>

\* 08:00 every 240 minutes was submitted
C16_WitnessExample ==
    /\ op.name = "submit"
    /\ op.intervalStartTime = <<8, 0>>
    /\ op.intervalUnit = "minutes" /\ op.intervalVal = 240
    /\ Len(medications[Len(medications)].times) = 4

-----------------------------------------------------------------------------
(* C17  nextDose selection.  The candidates are the (medication, slot)     *)
(* pairs of the non-AS_NEEDED medications shown that have no entry today   *)
(* and whose diff = slot minute - current minute is at least -60; nextDose *)
(* is none iff there is no candidate, and otherwise a candidate of the     *)
(* smallest diff.                                                          *)

\* the candidates at minute c of the day, as <<medication id, "HH:mm", diff>>
Candidates(c) ==
    LET shown == currentMedications(medications, activeProfileId)
    IN  UNION {{<<shown[i].id, shown[i].times[k], MinuteOfDay(shown[i].times[k]) - c>> :
                   k \in {k2 \in 1..Len(shown[i].times) :
                             /\ EntriesFor(logs, shown[i].id, DateStr(now),
                                           shown[i].times[k2]) = {}
                             /\ MinuteOfDay(shown[i].times[k2]) - c >= 0 - 60}} :
               i \in {i2 \in 1..Len(shown) : shown[i2].frequency # "AS_NEEDED"}}

C17_NextDoseSelection ==
    op.name = "dashboard" =>
        LET cands == Candidates(op.currentMinutes)
        IN  IF cands = {}
            THEN op.nextDose = <<>>
            ELSE /\ op.nextDose # <<>>
                 /\ <<op.nextDose[1].med, op.nextDose[1].time, op.nextDose[1].diff>> \in cands
                 /\ \A x \in cands : op.nextDose[1].diff <= x[3]

-----------------------------------------------------------------------------
(* C18  Profile-agnostic poller.  What a scan fires is determined by the   *)
(* medications, the log, the registry and the instant, and not by the      *)
(* active profile: whenever the scheduled scan has run, every medication,  *)
(* whoever owns it and whichever profile is active, has been reminded of   *)
(* the current HH:mm exactly if it is due then, has no entry today and is  *)
(* not snoozed; the reminders come in the order of `medications'.          *)

\* the medication is due at `slot' on that day of the week
DueByFrequency(med, slot, dayOfWeek) ==
    /\ slot \in med.times
    /\ med.frequency # "AS_NEEDED"
    /\ med.frequency = "WEEKLY" => (med.daysOfWeek = {} \/ dayOfWeek \in med.daysOfWeek)

\* the ids of the medications to remind of at the current minute, in order
IdsToRemind ==
    LET due == SelectSeq(medications,
                   LAMBDA med : /\ DueByFrequency(med, TimeStr(now), DayOfWeek(now))
                                /\ Untouched(med))
    IN  [i \in 1..Len(due) |-> due[i].id]

C18_ProfileAgnostic ==
    Scanned =>
        /\ [i \in 1..Len(fired) |-> fired[i].medicationId] = IdsToRemind
        /\ \A i \in 1..Len(fired) : fired[i].kind = "scheduled" /\ fired[i].time = TimeStr(now)

\* a tick reminded of two medications, one owned by the active profile and
\* one owned by the other profile
C18_Witness ==
    /\ op.name = "tick" /\ op.scanned
    /\ \E i, j \in 1..Len(medications) :
          /\ OwnerId(medications[i]) = activeProfileId
          /\ OwnerId(medications[j]) # activeProfileId
          /\ CountFired(fired, "scheduled", medications[i].id, TimeStr(now)) = 1
          /\ CountFired(fired, "scheduled", medications[j].id, TimeStr(now)) = 1

-----------------------------------------------------------------------------
(* C19  Sound resolution precedence.  Every reminder fired for a           *)
(* medication, by the snooze step or by the scheduled scan, carries the    *)
(* medication's reminderSound when that is set and not 'default';          *)
(* otherwise the preferredSound of the profile that owns the medication    *)
(* (the profile 'default' when the medication has no profileId) when that  *)
(* is set; otherwise 'default'.                                            *)

\* the preferredSound of the profile `pid', "none" when the profile does not
\* exist or has none
PreferenceOf(pid) ==
    IF \E i \in 1..Len(profiles) : profiles[i].id = pid
    THEN (CHOOSE pr \in {profiles[i] : i \in 1..Len(profiles)} : pr.id = pid).preferredSound
    ELSE "none"

ExpectedSound(med) ==
    LET owner == IF med.profileId = "none" THEN "default" ELSE med.profileId
    IN  CASE med.reminderSound \notin {"none", "default"} -> med.reminderSound
          [] OTHER -> IF PreferenceOf(owner) # "none" THEN PreferenceOf(owner)
                      ELSE "default"

C19_SoundPrecedence ==
    \A i \in 1..Len(fired) :
        fired[i].kind \in {"scheduled", "snooze"}
        => fired[i].sound = ExpectedSound(medications[FindMed(medications,
                                                              fired[i].medicationId)])

\* one tick fired a snooze reminder and a scheduled reminder of a medication
\* without a sound of its own and without profileId, both with the sound the
\* default profile prefers
C19_Witness ==
    /\ op.name = "tick"
    /\ \E i, j \in 1..Len(fired) :
          /\ fired[i].kind = "snooze" /\ fired[j].kind = "scheduled"
          /\ fired[i].sound = "alert" /\ fired[j].sound = "alert"
    /\ \A k \in 1..Len(medications) :
          medications[k].profileId = "none" /\ medications[k].reminderSound = "default"

-----------------------------------------------------------------------------
(* C20  At-least-once delivery after notifier failure.  When the notifier  *)
(* failed for the reminders of a tick, the next tick, if it comes in the   *)
(* same minute (nothing was logged or snoozed in between), fires a         *)
(* reminder for each of those slots again.                                 *)

\* the notifier failed in the step that led to this state
NotifierFailed ==
    /\ op.name = "tick"
    /\ "rejected" \in DOMAIN op

\* this step is a tick, whatever the notifier does
AnyTickStep ==
    /\ op'.name = "tick"
    /\ (checkReminders \/ checkRemindersNotifierFails)

C20_RetryStep ==
    (NotifierFailed /\ AnyTickStep) =>
        \A i \in 1..Len(fired) :
            fired[i].kind = "scheduled"
            => CountFired(fired', "scheduled", fired[i].medicationId, fired[i].time) >= 1

C20_RetryAfterFailure == [][C20_RetryStep]_vars

\* the first half of the claim: the tick during which the notifier failed
\* made one call for each slot, and no second one
C20_NoRetryInTick ==
    NotifierFailed =>
        \A m \in MedIds, t \in Slots : CountFired(fired, "scheduled", m, t) <= 1

-----------------------------------------------------------------------------
(* C21  Malformed persisted state degrades to the default.  For each       *)
(* persisted key, loading never raises; it yields the default of the key   *)
(* when the stored item is absent or is not a JSON text, and the value the *)
(* text denotes when it is one.                                            *)

\* the JSON text of the array of n elements
ArrayText(n) ==
    <<"[">> \o [i \in 1..(IF n = 0 THEN 0 ELSE 2 * n - 1) |->
                   IF i % 2 = 1 THEN "x" ELSE ","] \o <<"]">>

\* the default of each key
DefaultOf(key) ==
    IF key = "medimind_profiles"
    THEN <<[id |-> "default", preferredSound |-> "none"]>>
    ELSE <<>>

C21_LoadDegrades ==
    op.name = "load" =>
        /\ ~op.raised
        /\ IF op.item.present /\ \E n \in 0..MaxItemLen : op.item.text = ArrayText(n)
           THEN \E n \in 0..MaxItemLen : /\ op.item.text = ArrayText(n)
                                         /\ op.value = [i \in 1..n |-> "x"]
           ELSE op.value = DefaultOf(op.key)
        /\ op.key = "medimind_profiles" => profiles = op.value
        /\ op.key = "medimind_meds" => medications = op.value
        /\ op.key = "medimind_logs" => logs = op.value

\* the profiles were stored as "[x,]", which is not JSON: the default
\* profile list was loaded
C21_Witness ==
    /\ op.name = "load"
    /\ op.key = "medimind_profiles"
    /\ op.item.present /\ op.item.text = <<"[", "x", ",", "]">>
    /\ profiles = <<[id |-> "default", preferredSound |-> "none"]>>

\* the medications were stored as "[x]" and loaded as that array
C21_WitnessParsed ==
    /\ op.name = "load"
    /\ op.key = "medimind_meds"
    /\ op.item.text = <<"[", "x", "]">>
    /\ medications = <<"x">>

-----------------------------------------------------------------------------
(* C22  Dedup checks use the state current at the tick.  When a tick runs  *)
(* the scan of minute HH:mm, a medication due then is reminded exactly if  *)
(* the log, as it is at that moment, has no entry for (medication, today,  *)
(* HH:mm), whatever the status of the entry and whenever it was logged;    *)
(* entries of another date, slot or medication do not count.  (No snooze   *)
(* is set in this specification.)                                          *)

C22_FreshDedup ==
    (op.name = "tick" /\ op.scanned) =>
        \A i \in 1..Len(medications) :
            CountFired(fired, "scheduled", medications[i].id, TimeStr(now))
                = IF /\ DueByFrequency(medications[i], TimeStr(now), DayOfWeek(now))
                     /\ EntriesFor(logs, medications[i].id, DateStr(now), TimeStr(now)) = {}
                  THEN 1 ELSE 0

\* the scan of the second minute: m1 was skipped for that slot before the
\* scan and is not reminded, m2 is reminded although m1 has an entry there
C22_Witness ==
    /\ op.name = "tick" /\ op.scanned
    /\ TimeStr(now) = 1
    /\ \E j \in EntriesFor(logs, "m1", DateStr(now), 1) : logs[j].status = "SKIPPED"
    /\ CountFired(fired, "scheduled", "m1", 1) = 0
    /\ CountFired(fired, "scheduled", "m2", 1) = 1

\* the scan of the first minute of the second day: m1 has an entry for that
\* slot on the first day and is reminded
C22_WitnessOtherDate ==
    /\ op.name = "tick" /\ op.scanned
    /\ DateStr(now) = 1
    /\ EntriesFor(logs, "m1", 0, TimeStr(now)) # {}
    /\ CountFired(fired, "scheduled", "m1", TimeStr(now)) = 1

-----------------------------------------------------------------------------
(* C23  The minute guard gates only the scheduled scan.  On every tick,    *)
(* whether or not the scan of the current minute has already run, every    *)
(* registry entry whose wake-up time has come is removed, and a snooze     *)
(* reminder is fired for it if its medication still exists.                *)

C23_TickStep ==
    TickStep =>
        \A j \in 1..Len(snoozedItems) :
            now >= snoozedItems[j].wakeUpTime
            => /\ SnoozesFor(snoozedItems', snoozedItems[j].medicationId,
                             snoozedItems[j].scheduledTime) = {}
               /\ FindMed(medications, snoozedItems[j].medicationId) # 0
                  => CountFired(fired', "snooze", snoozedItems[j].medicationId,
                                snoozedItems[j].scheduledTime) >= 1

C23_SnoozeStepNotGated == [][C23_TickStep]_vars

\* a tick in a minute whose scan had already run fired a snooze reminder and
\* emptied the registry
C23_Witness ==
    /\ op.name = "tick" /\ ~op.scanned
    /\ \E i \in 1..Len(fired) : fired[i].kind = "snooze"
    /\ snoozedItems = <<>>

-----------------------------------------------------------------------------
(* C24  Snooze entries do not linger.  While notifications are permitted   *)
(* and ticks keep occurring, every entry of the registry is eventually     *)
(* removed, and no entry whose wake-up time has come survives a tick.      *)

\* the registry holds the entry (medId, time, wakeUpTime)
Registered(medId, time, wakeUpTime) ==
    \E j \in 1..Len(snoozedItems) :
        /\ snoozedItems[j].medicationId = medId
        /\ snoozedItems[j].scheduledTime = time
        /\ snoozedItems[j].wakeUpTime = wakeUpTime

C24_TickPrunes ==
    TickStep => \A j \in 1..Len(snoozedItems') : now < snoozedItems'[j].wakeUpTime

C24_EventuallyRemoved ==
    \A t \in Slots, w \in 1..MaxNow :
        Registered("m1", t, w) ~> ~Registered("m1", t, w)

\* C24: entries are pruned by every tick and none stays for ever
C24_NoLingering == [][C24_TickPrunes]_vars /\ C24_EventuallyRemoved

\* a scanning tick has just removed the last entry at its wake-up time
C24_Witness ==
    /\ op.name = "tick" /\ op.scanned
    /\ snoozedItems = <<>>
    /\ \E i \in 1..Len(fired) : fired[i].kind = "snooze"

-----------------------------------------------------------------------------
(* C25  No double notification inside one tick.  A tick fires at most one  *)
(* notification for a (medication, slot).                                  *)

C25_AtMostOnePerTick ==
    op.name = "tick" =>
        \A m \in MedIds, t \in Slots :
            CountFired(fired, "snooze", m, t) + CountFired(fired, "scheduled", m, t) <= 1

\* the second half of the claim: a tick that fires the snooze reminder of
\* (m, t) does not fire the scheduled reminder of (m, t) as well
C25_WakeSuppressesScan ==
    op.name = "tick" =>
        \A m \in MedIds, t \in Slots :
            CountFired(fired, "snooze", m, t) >= 1
            => CountFired(fired, "scheduled", m, t) = 0

\* a scanning tick fired the snooze reminder of the slot of the current
\* minute
C25_WakeAtSlot ==
    /\ op.name = "tick" /\ op.scanned
    /\ \E m \in MedIds : CountFired(fired, "snooze", m, TimeStr(now)) >= 1

-----------------------------------------------------------------------------
(* C26  INTERVAL expansion terminates.  Every call of                      *)
(* calculateIntervalTimes returns, whatever the interval field holds:      *)
(* each iteration of its loop moves `current' towards the end of the day.  *)

\* the call returns (a call is followed for MaxWalk + 1 iterations)
C26_Terminates == <>(op.name = "returned")

C26_PositiveTerminates == (op.intervalVal >= 1) => <>(op.name = "returned")

\* a call with an interval of zero has pushed more than MaxWalk times
C26_ZeroStillLooping ==
    /\ op.name = "loop"
    /\ op.intervalVal = 0
    /\ Len(op.calculatedTimes) > MaxWalk

-----------------------------------------------------------------------------
(* C27  A minute is scanned once and then closed.  Once the scan of the    *)
(* key (date, HH:mm) has run, no later run of checkReminders in that       *)
(* minute (a tick, or the run after a medication was added, edited or a    *)
(* dose snoozed) fires a scheduled reminder, the key stays closed, and the *)
(* clock never comes back to it; every scheduled reminder carries the      *)
(* HH:mm of the minute whose scan fired it.                                *)

\* a medication that is due now, neither logged nor snoozed, and has had no
\* scheduled reminder in this minute
OpenSlot(medId) ==
    /\ FindMed(medications, medId) # 0
    /\ IsDueAt(medications[FindMed(medications, medId)], TimeStr(now), DayOfWeek(now))
    /\ ~IsLogged(logs, medId, DateStr(now), TimeStr(now))
    /\ ~IsSnoozed(snoozedItems, medId, TimeStr(now))
    /\ reminded[medId] = 0

C27_ClosedStep ==
    /\ (lastCheckedMinuteRef = MinuteKey(now) /\ now' = now)
          => /\ \A m \in MedIds, t \in Slots : CountFired(fired', "scheduled", m, t) = 0
             /\ lastCheckedMinuteRef' = lastCheckedMinuteRef
             /\ reminded' = reminded
    /\ \A m \in MedIds, t \in Slots :
          CountFired(fired', "scheduled", m, t) > 0
             => /\ t = TimeStr(now')
                /\ lastCheckedMinuteRef # MinuteKey(now')
                /\ lastCheckedMinuteRef' = MinuteKey(now')
    /\ now' >= now

C27_MinuteClosed == [][C27_ClosedStep]_vars

\* m2 was added with the current slot after the scan of the minute
C27_WitnessAdded ==
    /\ op.name = "add"
    /\ lastCheckedMinuteRef = MinuteKey(now)
    /\ OpenSlot(op.id)

\* a medication was edited to contain the current slot after the scan
C27_WitnessEdited ==
    /\ op.name = "update"
    /\ lastCheckedMinuteRef = MinuteKey(now)
    /\ OpenSlot(op.id)

\* a tick that did not scan, while a slot of the minute is open
C27_Witness ==
    /\ op.name = "tick"
    /\ ~op.scanned
    /\ fired = <<>>
    /\ \E m \in MedIds : OpenSlot(m)

-----------------------------------------------------------------------------
(* C28  A snooze reminder is never fired after its medication was logged.  *)
(* A snooze reminder of (m, t) is fired only for an entry of (m, t) that   *)
(* was in the registry before the step with its wake-up time reached, and  *)
(* never by the step that logs m; logDose(m, ...) leaves no entry of m in  *)
(* the registry, and only snoozeDose(m, t, _) puts an entry of (m, t)      *)
(* into it: so no logDose(m, ...) lies between the snoozeDose that made    *)
(* the entry and the tick that fires it.  An elapsed entry of a medication *)
(* that no longer exists is removed by the tick, which fires nothing for   *)
(* it.                                                                     *)

\* this step is logDose(medId, ...)
LogOf(medId) == \E s \in Statuses, t \in Slots : LogStep(medId, s, t)

C28_FireStep ==
    \A m \in MedIds, t \in Slots :
        CountFired(fired', "snooze", m, t) > 0
        => /\ \E j \in 1..Len(snoozedItems) :
                  /\ snoozedItems[j].medicationId = m
                  /\ snoozedItems[j].scheduledTime = t
                  /\ snoozedItems[j].wakeUpTime <= now
           /\ ~LogOf(m)
           /\ FindMed(medications, m) # 0

C28_LogStep ==
    \A m \in MedIds :
        LogOf(m) => \A j \in 1..Len(snoozedItems') : snoozedItems'[j].medicationId # m

C28_CreateStep ==
    \A j \in 1..Len(snoozedItems') :
        (\A i \in 1..Len(snoozedItems) : snoozedItems[i] # snoozedItems'[j])
        => \E d \in SnoozeMinutes :
               /\ SnoozeStep(snoozedItems'[j].medicationId, snoozedItems'[j].scheduledTime, d)
               /\ snoozedItems'[j].wakeUpTime = now + d * StepsPerMinute

C28_GoneStep ==
    op'.name = "tick"
    => \A j \in 1..Len(snoozedItems) :
           (now >= snoozedItems[j].wakeUpTime
               /\ FindMed(medications, snoozedItems[j].medicationId) = 0)
           => /\ \A k \in 1..Len(snoozedItems') : snoozedItems'[k] # snoozedItems[j]
              /\ \A k \in 1..Len(fired') :
                     fired'[k].medicationId # snoozedItems[j].medicationId

C28_NoReminderAfterLog ==
    [][C28_FireStep /\ C28_LogStep /\ C28_CreateStep /\ C28_GoneStep]_vars

\* a tick fired the snooze reminder of m1, which was logged before the snooze
C28_Witness ==
    /\ op.name = "tick"
    /\ \E t \in Slots : CountFired(fired, "snooze", "m1", t) > 0
    /\ \E i \in 1..Len(logs) : logs[i].medicationId = "m1"

\* m1 was logged while a snooze of m1 was pending
C28_WitnessLogged ==
    /\ op.name = "log"
    /\ \E e \in snoozeUntil : e.medicationId = "m1"
    /\ \A j \in 1..Len(snoozedItems) : snoozedItems[j].medicationId # "m1"

\* a tick removed the elapsed entry of the deleted m1 and fired nothing
C28_WitnessDeleted ==
    /\ op.name = "tick"
    /\ op.woken > 0
    /\ FindMed(medications, "m1") = 0
    /\ \A j \in 1..Len(snoozedItems) : snoozedItems[j].medicationId # "m1"
    /\ \A k \in 1..Len(fired) : fired[k].medicationId # "m1"
    /\ ~op.scanned

-----------------------------------------------------------------------------
(* C29  On-demand doses are keyed by wall-clock minute.  A "Take Now" for  *)
(* an AS_NEEDED medication that already has an entry for the current       *)
(* wall-clock minute of today adds no entry and leaves the stock as it is; *)
(* otherwise it adds one entry for that minute and takes one unit off the  *)
(* stock, stopping at 0.  Either way the medication then has exactly one   *)
(* entry for that minute of that day.                                      *)

\* this step is a "Take Now" of medId
TakeNowStep(medId) ==
    /\ op'.name = "log"
    /\ TakeNow(medId)

C29_TakeNowStep ==
    \A m \in MedIds :
        TakeNowStep(m)
        => LET minute == (now \div StepsPerMinute) % MinutesPerDay
               day == (now \div StepsPerMinute) \div MinutesPerDay
           IN  /\ IF EntriesFor(logs, m, day, minute) # {}
                  THEN /\ Len(logs') = Len(logs)
                       /\ StockOf(medications', m) = StockOf(medications, m)
                  ELSE /\ Len(logs') = Len(logs) + 1
                       /\ StockOf(medications', m) = Max0(StockOf(medications, m) - 1)
               /\ Cardinality(EntriesFor(logs', m, day, minute)) = 1
               /\ logs'[Min(EntriesFor(logs', m, day, minute))].status = "TAKEN"
               /\ \A o \in MedIds \ {m} :
                      StockOf(medications', o) = StockOf(medications, o)

C29_KeyedByMinute == [][C29_TakeNowStep]_vars

\* the second "Take Now" of m1 in one minute, at a later instant of it
C29_Witness ==
    /\ op.name = "log"
    /\ op.branch = "same"
    /\ now % StepsPerMinute > 0
    /\ Cardinality({i \in 1..Len(logs) : logs[i].medicationId = "m1"}) = 1
    /\ StockOf(medications, "m1") = MaxStock - 1

\* "Take Now" of m1 in two different minutes: two entries, two units
C29_WitnessTwoMinutes ==
    /\ op.name = "log"
    /\ op.branch = "new"
    /\ Cardinality({i \in 1..Len(logs) : logs[i].medicationId = "m1"}) = 2
    /\ StockOf(medications, "m1") = MaxStock - 2

\* the second of them finds the stock at 0 and leaves it there
C29_WitnessFloor ==
    /\ op.name = "log"
    /\ op.branch = "new"
    /\ Cardinality({i \in 1..Len(logs) : logs[i].medicationId = "m1"}) = 2
    /\ StockOf(medications, "m1") = 0
    /\ MaxStock >= 2

-----------------------------------------------------------------------------
(* C30  Without permission the reminder engine is inert.  On a step taken  *)
(* while permission is not granted, no notification of any kind is fired,  *)
(* no tick runs, the key of the last scan is not touched, and logDose      *)
(* writes the log and the stock it writes with permission granted.  A      *)
(* registry entry, elapsed or not, stays in the registry unless the step   *)
(* is a logDose of its medication or a snoozeDose of its own (medication,  *)
(* slot), which replaces it.                                               *)

NotPermitted ==
    /\ notificationPermission # "granted"
    /\ notificationPermission' # "granted"

C30_Silent ==
    /\ fired' = <<>>
    /\ op'.name # "tick"
    /\ lastCheckedMinuteRef' = lastCheckedMinuteRef

C30_LogAsPermitted ==
    \A m \in MedIds, s \in Statuses, t \in Slots :
        LogStep(m, s, t)
        => /\ logs' = LogsAfterLog(logs, m, s, t)
           /\ \E timing \in UpdaterTimings :
                  medications' = StockAfterLog(medications, logs, m, s, t, timing)

\* the elapsed entries of the registry stay, but for those of a medication
\* logged
C30_EntriesStay ==
    \A j \in 1..Len(snoozedItems) :
        \/ now < snoozedItems[j].wakeUpTime
        \/ \E k \in 1..Len(snoozedItems') : snoozedItems'[k] = snoozedItems[j]
        \/ LogOf(snoozedItems[j].medicationId)

\* ... and for the one of a slot snoozed again
C30_EntriesStayOrReplaced ==
    \A j \in 1..Len(snoozedItems) :
        \/ \E k \in 1..Len(snoozedItems') : snoozedItems'[k] = snoozedItems[j]
        \/ LogOf(snoozedItems[j].medicationId)
        \/ \E d \in SnoozeMinutes :
               /\ SnoozeStep(snoozedItems[j].medicationId, snoozedItems[j].scheduledTime, d)
               /\ \E k \in 1..Len(snoozedItems') :
                      /\ snoozedItems'[k].medicationId = snoozedItems[j].medicationId
                      /\ snoozedItems'[k].scheduledTime = snoozedItems[j].scheduledTime
                      /\ snoozedItems'[k].wakeUpTime = now + d * StepsPerMinute

\* the statement with "elapsed entries stay until a logDose clears them"
C30_InertUntilLogged ==
    [][NotPermitted => C30_Silent /\ C30_LogAsPermitted /\ C30_EntriesStay]_vars

C30_Inert ==
    [][NotPermitted => C30_Silent /\ C30_LogAsPermitted /\ C30_EntriesStayOrReplaced]_vars

\* without permission: m1 was logged TAKEN with its stock crossing the
\* threshold, nothing was fired, the elapsed entry of m2 at the current slot
\* is still in the registry and the minute was never scanned
C30_Witness ==
    /\ notificationPermission # "granted"
    /\ op.name = "log"
    /\ op.status = "TAKEN"
    /\ op.branch = "new"
    /\ StockOf(medications, "m1") = 1
    /\ fired = <<>>
    /\ lastCheckedMinuteRef = <<>>
    /\ \E j \in 1..Len(snoozedItems) :
           /\ snoozedItems[j].medicationId = "m2"
           /\ snoozedItems[j].wakeUpTime <= now
           /\ snoozedItems[j].scheduledTime = TimeStr(now)

=============================================================================
